---- MODULE Spec2Model ----
(***************************************************************************)
(* Edge-to-VPS telemetry pipeline: the durable SQLite spool, the HTTPS     *)
(* batch uploader, the two edge loops with graceful shutdown, and the      *)
(* idempotent ingest of the VPS.                                           *)
(***************************************************************************)
EXTENDS Integers, Sequences, FiniteSets, Bags, TLC

(***************************************************************************)
(* Bounds of the model.                                                    *)
(***************************************************************************)
\* INSERTs executed on the spool over a whole behaviour
MaxEnqueue == 2
\* process starts after the first one (crash or graceful stop, then start)
MaxRestarts == 1
\* largest batch_size / max_samples_per_request configured
MaxBatch == 2
\* largest n handed to peek on the spool on its own
MaxPeek == 3
\* longest rowid list handed to ack on the spool on its own
MaxAckLen == 2
\* rows enqueued on the spool on its own, the rolled back ones not counted
MaxSpoolRows == 3
\* largest max_backoff_s the uploader is built with
MaxBackoffCap == 3
\* ingest requests the server handles at the same time
MaxHandlers == 2
\* timestamps the samples of the ingest requests carry
MaxTs == 2
\* realtime requests the server handles at the same time
MaxReaders == 2

(***************************************************************************)
(* Program constants.                                                      *)
(***************************************************************************)
\* uploader.py: _INITIAL_BACKOFF_S
INITIAL_BACKOFF_S == 1
\* ingest.py: default of MAX_REQUEST_BYTES
DEFAULT_MAX_REQUEST_BYTES == 1048576

VARIABLES
    \* ---- spool file and connection (spool.py)
    disk,            \* committed content of the SQLite file: [rows, seq]
    conn,            \* what the open connection sees (uncommitted work included)
    db_open,         \* Spool._db is not None
    \* ---- edge supervisor (main.py)
    run_pc,          \* "gather" | "flush" | "returned" | "down"
    shutdown,        \* shutdown_event.is_set()
    restarts,        \* process starts so far, after the first
    poll_pc,         \* "head" | "commit" | "health" | "sleep" | "done" | "counted"
    up_pc,           \* "head" | "fetch" | "posting" | "commit" | "sleep" | "done"
    clock,           \* wall clock read by datetime.now(), one tick per sample
    health,          \* HealthWriter state: [spool_count, polled, uploaded]
    \* ---- uploader (uploader.py)
    batch_size,      \* Uploader._batch_size
    max_backoff_s,   \* Uploader._max_backoff_s
    current_backoff, \* Uploader._current_backoff
    peek_n,          \* the n of the running peek
    peek_snap,       \* rows the SELECT saw when it was executed
    up_rows,         \* rows returned by peek in the running upload_batch
    up_status,       \* status of the response received, 0 when none
    up_error,        \* exception raised by the POST: "none" | "network" | "other"
    up_result,       \* how the last upload_batch ended: "none" | "true" | "false" | "raised"
    \* ---- network and server
    net,             \* "idle" | "request" | "response"
    net_status,      \* status carried by the response in flight
    max_samples,     \* MAX_SAMPLES_PER_REQUEST of the server
    max_request_bytes, \* MAX_REQUEST_BYTES of the server
    store,           \* rows of sungrow_samples, committed: a bag of rows
    txns,            \* the ingest requests being handled, one per handler
    cache,           \* Redis: a set of [key, value]
    rts,             \* the GET /v1/realtime requests being handled, one per reader
    ing,             \* the ingest request handled next to the readers
    api_resp,        \* the response the API gave last
    \* ---- history (not program state)
    enq_log,         \* rows in the order of their INSERT (rolled back ones left out)
    durable,         \* rows whose INSERT has been committed
    deleted,         \* rowids a DELETE of ack has removed (rolled back ones left out)
    acked,           \* rowids whose DELETE has been committed
    ok200,           \* rowids of batches whose POST was answered 200
    ack_calls,       \* rowid lists handed to spool.ack by the running upload_batch
    enq_during,      \* rowids inserted since the running upload_batch peeked
    peek_hist,       \* row sets the connection showed during the running peek
    rt_seen,         \* greatest ts a realtime response has carried so far
    rt_acked,        \* greatest ts inserted by an ingest that was answered 200
    prev_ingest,     \* the accepted ingest requests sent so far, in order
    \* ---- components followed on their own
    series_tbl,      \* rows of sungrow_samples read by GET /v1/series
    series_now,      \* now() of the database when the series is queried
    series_out,      \* what query_series returned last
    poller,          \* the Poller: its failure counter and the cycle it runs
    norm_raw,        \* the raw register map handed to normalize
    norm_out,        \* what normalize returned for it
    upload_interval_s, \* the interval _upload_loop was started with
    fail_run,        \* failed upload_batch calls since the last success
    waited,          \* seconds _upload_loop waited after the last upload_batch
    resp_inserted,   \* "inserted" of the body of the last response to the edge
    health_writer,   \* the HealthWriter: its fields and where its _write stands
    health_file,     \* the health file as another process finds it
    health_seen      \* what the last reader of the health file got

spool_vars == <<disk, conn, db_open>>
super_vars == <<run_pc, shutdown, restarts, poll_pc, up_pc, clock, health>>
upl_vars == <<batch_size, max_backoff_s, current_backoff, peek_n, peek_snap, up_rows,
              up_status, up_error, up_result>>
comp_vars == <<series_tbl, series_now, series_out, poller, norm_raw, norm_out,
               upload_interval_s, fail_run, waited, resp_inserted,
               health_writer, health_file, health_seen>>
edge_comp_vars == <<series_tbl, series_now, series_out, poller, norm_raw, norm_out,
                    upload_interval_s, fail_run, waited,
                    health_writer, health_file, health_seen>>
api_vars == <<rts, ing, rt_seen, rt_acked, prev_ingest, api_resp>>
srv_vars == <<net, net_status, max_samples, max_request_bytes, comp_vars, store, txns, cache,
             api_vars>>
hist_vars == <<enq_log, durable, deleted, acked, ok200, ack_calls, enq_during, peek_hist>>
vars == <<spool_vars, super_vars, upl_vars, srv_vars, hist_vars>>

(***************************************************************************)
(* Helpers.                                                                *)
(***************************************************************************)
Min(a, b) == IF a < b THEN a ELSE b

Range(s) == {s[i] : i \in DOMAIN s}

SetMax(S) == IF S = {} THEN 0 ELSE CHOOSE x \in S : \A y \in S : y <= x

Rowids(db) == {r.rowid : r \in db.rows}

RowidsOf(rows) == [i \in DOMAIN rows |-> rows[i].rowid]

\* the history once the connection is gone: what it had not committed was
\* rolled back
Survives(e) == e \in durable \/ e.rowid \in acked

RollBackHistory ==
    /\ enq_log' = SelectSeq(enq_log, Survives)
    /\ deleted' = acked
    /\ UNCHANGED <<durable, acked>>

(***************************************************************************)
(* SQLite statements of the spool, as functions of the database state.     *)
(* A database is [rows: set of [rowid, payload], seq: the value kept in    *)
(* sqlite_sequence for the table].                                         *)
(***************************************************************************)
EmptyDb == [rows |-> {}, seq |-> 0]

\* rowid INTEGER PRIMARY KEY without AUTOINCREMENT: one more than the largest
\* rowid now in the table
PlainRowid(db) == SetMax(Rowids(db)) + 1

\* rowid INTEGER PRIMARY KEY AUTOINCREMENT: one more than the largest rowid
\* that ever existed in the table (kept in sqlite_sequence)
AutoincrementRowid(db) == SetMax(Rowids(db) \cup {db.seq}) + 1

\* _INSERT_SQL
SqlInsert(db, payload) ==
    LET id == AutoincrementRowid(db)
    IN  [rows |-> db.rows \cup {[rowid |-> id, payload |-> payload]},
         seq |-> id]

\* ORDER BY rowid ASC over a set of rows
RECURSIVE OrderByRowid(_)
OrderByRowid(rows) ==
    IF rows = {} THEN <<>>
    ELSE LET first == CHOOSE r \in rows : \A q \in rows : r.rowid <= q.rowid
         IN  <<first>> \o OrderByRowid(rows \ {first})

\* SELECT rowid, payload FROM spool ORDER BY rowid DESC LIMIT n
SqlPeekNewest(rows, n) ==
    LET all == OrderByRowid(rows)
    IN  [i \in 1..Min(n, Len(all)) |-> all[Len(all) + 1 - i]]

\* _PEEK_SQL: SELECT rowid, payload FROM spool ORDER BY rowid ASC LIMIT n
SqlPeek(rows, n) ==
    LET all == OrderByRowid(rows)
    IN  SubSeq(all, 1, Min(n, Len(all)))

\* DELETE FROM spool WHERE rowid <= the largest rowid listed
SqlDeleteUpTo(db, rowids) ==
    [db EXCEPT !.rows = {r \in @ : r.rowid > SetMax(Range(rowids))}]

\* DELETE FROM spool WHERE rowid IN (...)
SqlDelete(db, rowids) ==
    [db EXCEPT !.rows = {r \in @ : r.rowid \notin Range(rowids)}]

\* SELECT COUNT(DISTINCT payload) FROM spool
SqlCountDistinct(db) == Cardinality({r.payload : r \in db.rows})

\* _COUNT_SQL
SqlCount(db) == Cardinality(db.rows)


(***************************************************************************)
(* Spool methods (spool.py).  Every method is two awaits on the one shared *)
(* connection: the statement, then commit() or fetchall().  Another task   *)
(* may run between the two.                                                *)
(***************************************************************************)
\* Spool.peek, the guard before the statement: n < 1 returns [] at once
PeekSkips(n) == n < 1

\* cursor.fetchall() after the SELECT was executed on row set `snap` and the
\* connection now shows `cur`.  SQLite leaves open whether a statement that is
\* running sees changes made on its own connection meanwhile: the result is
\* either that of the rows as executed, or the first row as executed followed
\* by what the cursor finds when it advances.
PeekResults(snap, cur, n) ==
    LET asExecuted == SqlPeek(snap, n)
        live == IF snap = {} THEN <<>>
                ELSE LET first == SqlPeek(snap, 1)
                         rest == {r \in cur : r.rowid > first[1].rowid}
                     IN  first \o SqlPeek(rest, n - 1)
    IN  {asExecuted, live}

\* Spool.ack, the guard before the statement: an empty list returns at once
AckSkips(rowids) == rowids = <<>>

\* an open that recreates the table
OpenRecreate(file) == EmptyDb

\* Spool.open on the file: the new connection sees what was committed
OpenDb(file) == file

\* a commit that leaves the newest row of the connection out of the file
CommitWithoutNewest(view) ==
    [view EXCEPT !.rows = {r \in @ : r.rowid # SetMax(Rowids(view))}]

\* commit(): everything the connection did becomes the content of the file
Commit(view) == view

(***************************************************************************)
(* Samples and their JSON text.                                            *)
(***************************************************************************)
DeviceId == "dev-1"

\* SungrowSample as built by normalize(raw, device_id, ts)
Sample(dev, ts) == [device_id |-> dev, ts |-> ts, pv_power_w |-> 0]

\* sample.model_dump_json(): the text stored in the spool
ModelDumpJson(sample) == <<sample.device_id, sample.ts, sample.pv_power_w>>

\* json.loads(payload): the object put into the request body
JsonLoads(payload) ==
    [device_id |-> payload[1], ts |-> payload[2], pv_power_w |-> payload[3]]

(***************************************************************************)
(* Uploader (uploader.py).                                                 *)
(***************************************************************************)
\* a success test that accepts every 2xx status
IsAny2xx(status) == status \in 200..299

\* a success test that also wants every sample of the batch to be new
IsAllInserted(status) == status = 200 /\ resp_inserted = Len(up_rows)

\* upload_batch: response.status_code == 200
IsSuccess(status) == status = 200

\* a backoff that is never advanced
KeepBackoff(cur, cap) == cur

\* a backoff that doubles without a cap
DoubleBackoff(cur, cap) == cur * 2

\* _increase_backoff: min(current * 2, max_backoff_s)
IncreaseBackoff(cur, cap) == Min(cur * 2, cap)

\* _reset_backoff
ResetBackoff == INITIAL_BACKOFF_S

\* only the first peeked row is named
AckFirstOnly(rows) == <<rows[1].rowid>>

\* rowids = [rowid for rowid, _ in rows]
AckArgument(rows) == RowidsOf(rows)

\* samples = [json.loads(payload) for _, payload in rows]
RequestSamples(rows) == [i \in DOMAIN rows |-> JsonLoads(rows[i].payload)]


(***************************************************************************)
(* Ingest endpoint (api/ingest.py) and insertion (services/ingestion.py).  *)
(* A request is [auth: the device bound to the presented token or          *)
(* NoDevice, cl_present, cl_numeric, cl_value: the Content-Length header,  *)
(* body_len, schema_ok, samples].                                          *)
(***************************************************************************)
NoDevice == "none"

\* size of the JSON body carrying these samples, in units of one sample
JsonBytes(samples) == Len(samples)

\* the ownership check is left out
IngestRejectNoOwner(rq, maxBytes, maxSamples) ==
    IF rq.auth = NoDevice THEN 401
    ELSE IF rq.cl_present /\ ~rq.cl_numeric THEN 400
    ELSE IF rq.cl_present /\ rq.cl_value > maxBytes THEN 413
    ELSE IF rq.body_len > maxBytes THEN 413
    ELSE IF ~rq.schema_ok THEN 422
    ELSE IF rq.samples = <<>> THEN 200
    ELSE IF Len(rq.samples) > maxSamples THEN 413
    ELSE 0

\* the ownership check comes before the check of the batch size
IngestRejectOwnerFirst(rq, maxBytes, maxSamples) ==
    IF rq.auth = NoDevice THEN 401
    ELSE IF rq.cl_present /\ ~rq.cl_numeric THEN 400
    ELSE IF rq.cl_present /\ rq.cl_value > maxBytes THEN 413
    ELSE IF rq.body_len > maxBytes THEN 413
    ELSE IF ~rq.schema_ok THEN 422
    ELSE IF rq.samples = <<>> THEN 200
    ELSE IF \E i \in DOMAIN rq.samples : rq.samples[i].device_id # rq.auth
         THEN 403
    ELSE IF Len(rq.samples) > maxSamples THEN 413
    ELSE 0

\* the checks of ingest() before the insert, in the order of the code:
\* the status of the first failing one, 0 when the request reaches the insert
IngestReject(rq, maxBytes, maxSamples) ==
    IF rq.auth = NoDevice THEN 401
    ELSE IF rq.cl_present /\ ~rq.cl_numeric THEN 400
    ELSE IF rq.cl_present /\ rq.cl_value > maxBytes THEN 413
    ELSE IF rq.body_len > maxBytes THEN 413
    ELSE IF ~rq.schema_ok THEN 422
    ELSE IF rq.samples = <<>> THEN 200
    ELSE IF Len(rq.samples) > maxSamples THEN 413
    ELSE IF \E i \in DOMAIN rq.samples : rq.samples[i].device_id # rq.auth
         THEN 403
    ELSE 0

SampleKey(row) == <<row.device_id, row.ts>>

\* INSERT of one row with no conflict clause and no primary key
InsertAlways(rows, sample) == rows (+) SetToBag({sample})

\* INSERT ... ON CONFLICT (device_id, ts) DO NOTHING, one row of VALUES, into
\* the rows the statement can see
InsertRow(rows, sample) ==
    IF \E r \in BagToSet(rows) : SampleKey(r) = SampleKey(sample)
    THEN rows
    ELSE rows (+) SetToBag({sample})

\* only the first row of VALUES is inserted
InsertHeadOnly(rows, samples) ==
    IF samples = <<>> THEN rows ELSE InsertRow(rows, Head(samples))

\* the whole statement: the rows of VALUES in order
RECURSIVE InsertAll(_, _)
InsertAll(rows, samples) ==
    IF samples = <<>> THEN rows
    ELSE InsertAll(InsertRow(rows, Head(samples)), Tail(samples))

\* the request the uploader's POST carries: httpx sets the header from the body
EdgeRequest(rows) ==
    LET samples == RequestSamples(rows)
    IN  [auth |-> DeviceId, cl_present |-> TRUE, cl_numeric |-> TRUE,
         cl_value |-> JsonBytes(samples), body_len |-> JsonBytes(samples),
         schema_ok |-> TRUE, samples |-> samples]

\* a device other than the one the token is bound to
OtherDevice == "dev-2"

Handlers == 1..MaxHandlers

\* a handler with no request; `left` rows of VALUES are still to be inserted,
\* `written` are the rows its transaction has inserted and not committed
IdleTxn ==
    [pc |-> "idle", auth |-> NoDevice, n |-> 0, left |-> 0,
     written |-> EmptyBag, status |-> 0, inserted |-> 0]

\* samples that pass the ownership check of a request authenticated as dev
OwnSamples(dev) ==
    {[device_id |-> dev, ts |-> t, pv_power_w |-> p] : t \in 1..MaxTs, p \in 0..1}

\* a well-formed request of n samples of the authenticated device; the
\* values of the samples are drawn when their row is inserted
OwnRequest(n) ==
    [auth |-> DeviceId, cl_present |-> TRUE, cl_numeric |-> TRUE,
     cl_value |-> n, body_len |-> n, schema_ok |-> TRUE,
     samples |-> [i \in 1..n |-> [device_id |-> DeviceId]]]

\* requests one of the checks refuses
RefusedRequests ==
    LET ok == OwnRequest(1)
    IN  {[ok EXCEPT !.auth = NoDevice],
         [ok EXCEPT !.cl_numeric = FALSE],
         [ok EXCEPT !.cl_value = DEFAULT_MAX_REQUEST_BYTES + 1],
         [ok EXCEPT !.cl_present = FALSE, !.body_len = DEFAULT_MAX_REQUEST_BYTES + 1],
         [ok EXCEPT !.schema_ok = FALSE],
         [ok EXCEPT !.samples = <<[device_id |-> OtherDevice]>>]}

SrvRequests == RefusedRequests \cup {OwnRequest(n) : n \in 0..(MaxBatch + 1)}

\* the row would conflict with a row another transaction has inserted and not
\* yet committed: the INSERT waits for that transaction to end
HeldByOther(h, sample) ==
    \E g \in Handlers \ {h} : \E r \in BagToSet(txns[g].written) :
        SampleKey(r) = SampleKey(sample)

\* the cache is invalidated whatever the count
InvalidateAlways(inserted) == inserted >= 0

\* a single inserted row does not invalidate
InvalidateOnMany(inserted) == inserted > 1

\* if inserted > 0
ShouldInvalidate(inserted) == inserted > 0

\* the key of the realtime entry of a device
CacheKey(dev) == <<"realtime", dev>>

\* invalidate_device_cache: DELETE of the key; a Redis failure is logged and
\* leaves the cache as it is
InvalidateResults(entries, dev) ==
    {{e \in entries : e.key # CacheKey(dev)}, entries}


(***************************************************************************)
(* Realtime endpoint (api/realtime.py) and the cache it shares with the    *)
(* ingest (cache/redis_client.py).                                         *)
(***************************************************************************)
\* "no row", "no cached text"
NoSample == [device_id |-> NoDevice, ts |-> 0, pv_power_w |-> 0]
NoText == <<>>

\* the order of the query is ascending
OldestSample(rows, dev) ==
    LET own == {r \in BagToSet(rows) : r.device_id = dev}
    IN  IF own = {} THEN [device_id |-> NoDevice, ts |-> 0, pv_power_w |-> 0]
        ELSE CHOOSE r \in own : \A q \in own : r.ts <= q.ts

\* select(...).where(device_id == d).order_by(ts.desc()).limit(1)
LatestSample(rows, dev) ==
    LET own == {r \in BagToSet(rows) : r.device_id = dev}
    IN  IF own = {} THEN NoSample
        ELSE CHOOSE r \in own : \A q \in own : q.ts <= r.ts

\* _sample_to_dict
SampleToDict(row) ==
    [device_id |-> row.device_id, ts |-> row.ts, pv_power_w |-> row.pv_power_w]

\* json.dumps(sample_dict)
JsonDumps(d) == <<d.device_id, d.ts, d.pv_power_w>>

\* redis.get(key): the text stored under the key, NoText when there is none
CacheGet(entries, key) ==
    IF \E e \in entries : e.key = key
    THEN (CHOOSE e \in entries : e.key = key).value
    ELSE NoText

\* redis.set(key, text, ex=ttl)
CacheSet(entries, key, text) ==
    {e \in entries : e.key # key} \cup {[key |-> key, value |-> text]}

\* a response of the API; `used` lists what the handler touched
NoResponse ==
    [endpoint |-> "none", status |-> 0, inserted |-> 0, body |-> NoSample, used |-> {}]

Response(endpoint, status) ==
    [NoResponse EXCEPT !.endpoint = endpoint, !.status = status]

\* a handler of GET /v1/realtime with no request; `floor` and `must` are
\* taken when a request starts: the greatest ts answered and the greatest ts
\* acknowledged to an ingest by then, 0 when there was none
Readers == 1..MaxReaders

IdleReader ==
    [pc |-> "idle", status |-> 0, body |-> NoSample, floor |-> 0, must |-> 0]

\* the ingest handled next to the readers, with no request
IdleIngest ==
    [pc |-> "idle", added |-> EmptyBag, inserted |-> 0, invalidated |-> "no",
     status |-> 0]


(***************************************************************************)
(* The edge process (main.py): poll loop, upload loop, shutdown, final     *)
(* flush.                                                                  *)
(***************************************************************************)
\* HealthWriter.__init__; the two timestamps are kept as "was ever recorded"
NoHealth == [spool_count |-> 0, polled |-> FALSE, uploaded |-> FALSE]

\* state of the uploader and of the tasks right after the process started
FreshUpload ==
    /\ current_backoff' = INITIAL_BACKOFF_S
    /\ peek_n' = 0
    /\ peek_snap' = {}
    /\ up_rows' = <<>>
    /\ up_status' = 0
    /\ up_error' = "none"
    /\ up_result' = "none"
    /\ net' = "idle"
    /\ net_status' = 0
    /\ resp_inserted' = 0
    /\ ack_calls' = <<>>
    /\ enq_during' = {}
    /\ peek_hist' = {}

\* _poll_loop: the flag is set, the loop returns
PollExit ==
    /\ run_pc = "gather" /\ poll_pc = "head" /\ shutdown
    /\ poll_pc' = "done"
    /\ UNCHANGED <<spool_vars, run_pc, shutdown, restarts, up_pc, clock, health,
                   upl_vars, srv_vars, hist_vars>>

\* _poll_once: poll and normalize gave a sample; enqueue executes its INSERT
PollEnqueue ==
    /\ run_pc = "gather" /\ poll_pc = "head" /\ ~shutdown
    /\ clock <= MaxEnqueue
    /\ LET sample == Sample(DeviceId, clock)
           id == AutoincrementRowid(conn)
       IN  /\ conn' = SqlInsert(conn, ModelDumpJson(sample))
           /\ enq_log' = Append(enq_log, [rowid |-> id,
                                           payload |-> ModelDumpJson(sample)])
           /\ enq_during' = IF up_pc \in {"posting", "commit"}
                            THEN enq_during \cup {id} ELSE enq_during
           /\ peek_hist' = IF up_pc = "fetch"
                           THEN peek_hist \cup {conn'.rows} ELSE peek_hist
    /\ clock' = clock + 1
    /\ poll_pc' = "commit"
    /\ UNCHANGED <<disk, db_open, run_pc, shutdown, restarts, up_pc, health,
                   upl_vars, srv_vars, durable, deleted, acked, ok200, ack_calls>>

\* _poll_once: the poller or the normalizer returned None, or the iteration
\* raised: nothing is enqueued
PollNothing ==
    /\ run_pc = "gather" /\ poll_pc = "head" /\ ~shutdown
    /\ poll_pc' = "health"
    /\ UNCHANGED <<spool_vars, run_pc, shutdown, restarts, up_pc, clock, health,
                   upl_vars, srv_vars, hist_vars>>

\* Spool.enqueue: commit()
PollCommit ==
    /\ run_pc = "gather" /\ poll_pc = "commit"
    /\ disk' = Commit(conn)
    /\ durable' = durable \cup conn.rows
    /\ acked' = acked \cup (deleted \ Rowids(conn))
    /\ poll_pc' = "health"
    /\ UNCHANGED <<conn, db_open, run_pc, shutdown, restarts, up_pc, clock, health,
                   upl_vars, srv_vars, enq_log, deleted, ok200, ack_calls,
                   enq_during, peek_hist>>

\* _poll_once: count(), set_spool_count, record_poll
PollHealth ==
    /\ run_pc = "gather" /\ poll_pc = "health"
    /\ health' = [health EXCEPT !.spool_count = SqlCount(conn),
                                !.polled = TRUE]
    /\ poll_pc' = "sleep"
    /\ UNCHANGED <<spool_vars, run_pc, shutdown, restarts, up_pc, clock,
                   upl_vars, srv_vars, hist_vars>>

\* a wait that only its timeout ends
PollWakeByTimeout ==
    /\ run_pc = "gather" /\ poll_pc = "sleep" /\ ~shutdown
    /\ poll_pc' = "head"
    /\ UNCHANGED <<spool_vars, run_pc, shutdown, restarts, up_pc, clock, health,
                   upl_vars, srv_vars, hist_vars>>

\* _poll_loop: the wait ends, by timeout or by the flag
PollWake ==
    /\ run_pc = "gather" /\ poll_pc = "sleep"
    /\ poll_pc' = "head"
    /\ UNCHANGED <<spool_vars, run_pc, shutdown, restarts, up_pc, clock, health,
                   upl_vars, srv_vars, hist_vars>>

\* _upload_loop: the flag is set, the loop returns
UploadExit ==
    /\ run_pc = "gather" /\ up_pc = "head" /\ shutdown
    /\ up_pc' = "done"
    /\ UNCHANGED <<spool_vars, run_pc, shutdown, restarts, poll_pc, clock, health,
                   upl_vars, srv_vars, hist_vars>>

\* upload_batch is entered: peek(batch_size) executes its SELECT
BeginUploadBatch ==
    /\ peek_n' = batch_size
    /\ peek_snap' = conn.rows
    /\ peek_hist' = {conn.rows}
    /\ up_rows' = <<>>
    /\ up_status' = 0
    /\ up_error' = "none"
    /\ up_result' = "none"
    /\ ack_calls' = <<>>
    /\ enq_during' = {}
    /\ up_pc' = "fetch"

\* _upload_loop: one more iteration
UploadBegin ==
    /\ run_pc = "gather" /\ up_pc = "head" /\ ~shutdown
    /\ BeginUploadBatch
    /\ UNCHANGED <<spool_vars, run_pc, shutdown, restarts, poll_pc, clock, health,
                   batch_size, max_backoff_s, current_backoff, srv_vars,
                   enq_log, durable, deleted, acked, ok200>>

\* a run_loops that awaits the upload loop alone before the final flush
FlushAfterUploadLoop ==
    /\ run_pc = "gather" /\ up_pc = "done"
    /\ run_pc' = "flush"
    /\ BeginUploadBatch
    /\ UNCHANGED <<spool_vars, shutdown, restarts, poll_pc, clock, health,
                   batch_size, max_backoff_s, current_backoff, srv_vars,
                   enq_log, durable, deleted, acked, ok200>>

\* run_loops: gather returned, the final flush is attempted
FlushStart ==
    /\ run_pc = "gather" /\ poll_pc = "done" /\ up_pc = "done"
    /\ run_pc' = "flush"
    /\ BeginUploadBatch
    /\ UNCHANGED <<spool_vars, shutdown, restarts, poll_pc, clock, health,
                   batch_size, max_backoff_s, current_backoff, srv_vars,
                   enq_log, durable, deleted, acked, ok200>>

\* upload_batch ends with `result`: the loop goes to its wait, the flush
\* lets run_loops return
UploadReturn(result) ==
    /\ up_result' = result
    /\ IF run_pc = "flush"
       THEN up_pc' = "done" /\ run_pc' = "returned"
       ELSE up_pc' = "sleep" /\ run_pc' = run_pc
    /\ health' = IF result = "true"
                 THEN [health EXCEPT !.uploaded = TRUE] ELSE health

\* peek: fetchall(); an empty result returns False, otherwise the POST is sent
UploadFetch ==
    /\ run_pc \in {"gather", "flush"} /\ up_pc = "fetch"
    /\ \E rows \in PeekResults(peek_snap, conn.rows, peek_n) :
          /\ up_rows' = rows
          /\ IF rows = <<>>
             THEN /\ UploadReturn("false")
                  /\ net' = net
             ELSE /\ up_pc' = "posting"
                  /\ net' = "request"
                  /\ UNCHANGED <<run_pc, health, up_result>>
    /\ peek_snap' = {}
    /\ peek_hist' = {}
    /\ UNCHANGED <<spool_vars, shutdown, restarts, poll_pc, clock,
                   batch_size, max_backoff_s, current_backoff, peek_n,
                   up_status, up_error, net_status, max_samples, max_request_bytes, comp_vars, txns, api_vars,
                   store, cache, enq_log, durable, deleted, acked, ok200, ack_calls,
                   enq_during>>

\* httpx.ConnectError or httpx.TimeoutException: before the server saw the
\* request, or after it handled it (the response is lost)
UploadNetError ==
    /\ run_pc \in {"gather", "flush"} /\ up_pc = "posting"
    /\ current_backoff' = IncreaseBackoff(current_backoff, max_backoff_s)
    /\ net' = "idle"
    /\ net_status' = 0
    /\ up_error' = "network"
    /\ UploadReturn("false")
    /\ UNCHANGED <<spool_vars, shutdown, restarts, poll_pc, clock,
                   batch_size, max_backoff_s, peek_n, peek_snap, up_rows, up_status,
                   max_samples, max_request_bytes, comp_vars, txns, api_vars, store, cache, hist_vars>>

\* any other exception of the POST leaves upload_batch; _upload_once catches it
UploadOtherError ==
    /\ run_pc \in {"gather", "flush"} /\ up_pc = "posting"
    /\ net' = "idle"
    /\ net_status' = 0
    /\ up_error' = "other"
    /\ UploadReturn("raised")
    /\ UNCHANGED <<spool_vars, shutdown, restarts, poll_pc, clock,
                   batch_size, max_backoff_s, current_backoff, peek_n, peek_snap,
                   up_rows, up_status, max_samples, max_request_bytes, comp_vars, txns, api_vars, store, cache,
                   hist_vars>>

\* the server handles the POST: ingest() and ingest_samples() with its commit
ServerIngest ==
    /\ net = "request"
    /\ LET rq == EdgeRequest(up_rows)
           rej == IngestReject(rq, max_request_bytes, max_samples)
       IN  /\ store' = IF rej = 0 THEN InsertAll(store, rq.samples) ELSE store
           /\ net_status' = IF rej = 0 THEN 200 ELSE rej
           /\ resp_inserted' = IF rej = 0
                               THEN BagCardinality(store') - BagCardinality(store)
                               ELSE 0
           /\ IF rej = 0 /\ BagCardinality(store') > BagCardinality(store)
              THEN cache' \in InvalidateResults(cache, rq.auth)
              ELSE cache' = cache
    /\ net' = "response"
    /\ UNCHANGED <<spool_vars, super_vars, upl_vars, max_samples,
                   max_request_bytes, edge_comp_vars, txns, api_vars, hist_vars>>

\* statuses a reverse proxy in front of the server answers by itself
GatewayStatuses == {204, 502}

GatewayAnswer ==
    /\ net = "request"
    /\ \E st \in GatewayStatuses : net_status' = st
    /\ resp_inserted' = 0
    /\ net' = "response"
    /\ UNCHANGED <<spool_vars, super_vars, upl_vars, max_samples,
                   max_request_bytes, edge_comp_vars, txns, api_vars, store, cache,
                   hist_vars>>

\* upload_batch: the response arrived with a success status: ack executes
\* its DELETE
UploadAck ==
    /\ run_pc \in {"gather", "flush"} /\ up_pc = "posting" /\ net = "response"
    /\ IsSuccess(net_status)
    /\ up_status' = net_status
    /\ ok200' = IF net_status = 200 THEN ok200 \cup Range(AckArgument(up_rows))
                ELSE ok200
    /\ LET rowids == AckArgument(up_rows)
       IN  /\ ack_calls' = Append(ack_calls, rowids)
           /\ conn' = IF AckSkips(rowids) THEN conn ELSE SqlDelete(conn, rowids)
           /\ deleted' = deleted \cup (Rowids(conn) \ Rowids(conn'))
    /\ net' = "idle"
    /\ net_status' = 0
    /\ up_pc' = "commit"
    /\ UNCHANGED <<disk, db_open, run_pc, shutdown, restarts, poll_pc, clock, health,
                   batch_size, max_backoff_s, current_backoff, peek_n, peek_snap,
                   up_rows, up_error, up_result, max_samples, max_request_bytes, comp_vars, txns, api_vars,
                   store, cache, enq_log, durable, acked, enq_during, peek_hist>>

\* upload_batch: ack commits, the backoff is reset, True is returned
UploadAckCommit ==
    /\ run_pc \in {"gather", "flush"} /\ up_pc = "commit"
    /\ disk' = Commit(conn)
    /\ durable' = durable \cup conn.rows
    /\ acked' = acked \cup (deleted \ Rowids(conn))
    /\ current_backoff' = ResetBackoff
    /\ UploadReturn("true")
    /\ UNCHANGED <<conn, db_open, shutdown, restarts, poll_pc, clock,
                   batch_size, max_backoff_s, peek_n, peek_snap, up_rows, up_status,
                   up_error, srv_vars, enq_log, deleted, ok200, ack_calls,
                   enq_during, peek_hist>>

\* upload_batch: the response arrived with another status
UploadRejected ==
    /\ run_pc \in {"gather", "flush"} /\ up_pc = "posting" /\ net = "response"
    /\ ~IsSuccess(net_status)
    /\ up_status' = net_status
    /\ ok200' = IF net_status = 200 THEN ok200 \cup Range(AckArgument(up_rows))
                ELSE ok200
    /\ current_backoff' = IncreaseBackoff(current_backoff, max_backoff_s)
    /\ net' = "idle"
    /\ net_status' = 0
    /\ UploadReturn("false")
    /\ UNCHANGED <<spool_vars, shutdown, restarts, poll_pc, clock,
                   batch_size, max_backoff_s, peek_n, peek_snap, up_rows, up_error,
                   max_samples, max_request_bytes, comp_vars, txns, api_vars, store, cache,
                   enq_log, durable, deleted, acked, ack_calls, enq_during,
                   peek_hist>>

\* _upload_loop: the wait ends, by timeout or by the flag; what the finished
\* upload_batch left behind is forgotten
UploadWake ==
    /\ run_pc = "gather" /\ up_pc = "sleep"
    /\ up_pc' = "head"
    /\ peek_n' = 0
    /\ up_rows' = <<>>
    /\ up_status' = 0
    /\ up_error' = "none"
    /\ up_result' = "none"
    /\ resp_inserted' = 0
    /\ ack_calls' = <<>>
    /\ enq_during' = {}
    /\ UNCHANGED <<spool_vars, run_pc, shutdown, restarts, poll_pc, clock, health,
                   batch_size, max_backoff_s, current_backoff, peek_snap,
                   net, net_status, max_samples, max_request_bytes, edge_comp_vars,
                   store, txns, cache, api_vars,
                   enq_log, durable, deleted, acked, ok200, peek_hist>>

\* _handle_signal: SIGTERM or SIGINT sets the event
SignalShutdown ==
    /\ run_pc = "gather" /\ ~shutdown
    /\ shutdown' = TRUE
    /\ UNCHANGED <<spool_vars, run_pc, restarts, poll_pc, up_pc, clock, health,
                   upl_vars, srv_vars, hist_vars>>

\* async_main: run_loops returned, `async with Spool` closes the connection
SpoolClose ==
    /\ run_pc = "returned"
    /\ run_pc' = "down"
    /\ db_open' = FALSE
    /\ conn' = OpenDb(disk)
    /\ shutdown' = FALSE
    /\ health' = NoHealth
    /\ FreshUpload
    /\ RollBackHistory
    /\ UNCHANGED <<disk, restarts, poll_pc, up_pc, clock,
                   batch_size, max_backoff_s, max_samples, max_request_bytes,
                   edge_comp_vars, txns, api_vars, store, cache, ok200>>

\* the process is killed or the host loses power: what the connection had
\* not committed is gone, the request in flight is abandoned
Crash ==
    /\ run_pc \in {"gather", "flush", "returned"}
    /\ run_pc' = "down"
    /\ db_open' = FALSE
    /\ conn' = OpenDb(disk)
    /\ poll_pc' = "done"
    /\ up_pc' = "done"
    /\ FreshUpload
    /\ shutdown' = FALSE
    /\ health' = NoHealth
    /\ RollBackHistory
    /\ UNCHANGED <<disk, restarts, clock,
                   batch_size, max_backoff_s, max_samples, max_request_bytes,
                   edge_comp_vars, txns, api_vars, store, cache, ok200>>

\* async_main of the next process: open the spool, build the uploader, run
Start ==
    /\ run_pc = "down" /\ restarts < MaxRestarts
    /\ restarts' = restarts + 1
    /\ run_pc' = "gather"
    /\ shutdown' = FALSE
    /\ db_open' = TRUE
    /\ conn' = OpenDb(disk)
    /\ poll_pc' = "head"
    /\ up_pc' = "head"
    /\ health' = NoHealth
    /\ FreshUpload
    /\ UNCHANGED <<disk, clock, batch_size, max_backoff_s, max_samples,
                   max_request_bytes, edge_comp_vars, txns, api_vars, store, cache,
                   enq_log, durable, deleted, acked, ok200>>

\* no series has been queried
NoSeries == [frame |-> "none", path |-> "none", rows |-> <<>>]

SeriesIdle ==
    /\ series_tbl = {}
    /\ series_now = 0
    /\ series_out = NoSeries

\* the raw map of a cycle that has read nothing: no register name is a key
EmptyRaw == <<>>

\* Poller.__init__: no failure counted, no cycle run
NewPoller ==
    [consecutive_failures |-> 0, pc |-> "idle", delay |-> 0, read |-> <<>>,
     errors |-> {}, raw |-> EmptyRaw, result |-> "none",
     client |-> "none", closes |-> 0]

PollerIdle == poller = NewPoller

\* normalize has not been called
NotNormalized == [result |-> "none", fields |-> <<>>]

NormalizerIdle ==
    /\ norm_raw = EmptyRaw
    /\ norm_out = NotNormalized

\* config.py: default of upload_interval_s
DEFAULT_UPLOAD_INTERVAL_S == 10

\* the upload loop is not followed with its pacing
PacingIdle ==
    /\ upload_interval_s = DEFAULT_UPLOAD_INTERVAL_S
    /\ fail_run = 0
    /\ waited = 0
    /\ resp_inserted = 0

\* HealthWriter.__init__: nothing recorded, _write not running
NewHealthWriter ==
    [last_poll_ts |-> 0, last_upload_ts |-> 0, spool_count |-> 0, pc |-> "idle"]

\* the content of the health file: absent, empty, or the three fields
FileContent(state, data) == [state |-> state, data |-> data]

NoData == <<0, 0, 0>>

HealthIdle ==
    /\ health_writer = NewHealthWriter
    /\ health_file = FileContent("absent", NoData)
    /\ health_seen = FileContent("unread", NoData)

\* the components followed on their own are at rest
CompIdle ==
    /\ SeriesIdle
    /\ PollerIdle
    /\ NormalizerIdle
    /\ PacingIdle
    /\ HealthIdle

\* everything but the table, the cache and the components followed on their
\* own, right after the start
Boot ==
    /\ disk = EmptyDb
    /\ conn = OpenDb(EmptyDb)
    /\ db_open = TRUE
    /\ run_pc = "gather"
    /\ shutdown = FALSE
    /\ restarts = 0
    /\ poll_pc = "head"
    /\ up_pc = "head"
    /\ clock = 1
    /\ health = NoHealth
    /\ batch_size \in 1..MaxBatch
    /\ max_backoff_s = MaxBackoffCap
    /\ current_backoff = INITIAL_BACKOFF_S
    /\ peek_n = 0
    /\ peek_snap = {}
    /\ up_rows = <<>>
    /\ up_status = 0
    /\ up_error = "none"
    /\ up_result = "none"
    /\ net = "idle"
    /\ net_status = 0
    /\ max_samples \in 1..MaxBatch
    /\ max_request_bytes = DEFAULT_MAX_REQUEST_BYTES
    /\ txns = [h \in Handlers |-> IdleTxn]
    /\ rts = [r \in Readers |-> IdleReader]
    /\ ing = IdleIngest
    /\ api_resp = NoResponse
    /\ rt_seen = 0
    /\ rt_acked = 0
    /\ prev_ingest = <<>>
    /\ enq_log = <<>>
    /\ durable = {}
    /\ deleted = {}
    /\ acked = {}
    /\ ok200 = {}
    /\ ack_calls = <<>>
    /\ enq_during = {}
    /\ peek_hist = {}

\* the process and the server start with an empty table and an empty cache
Init ==
    /\ Boot
    /\ store = EmptyBag
    /\ cache = {}
    /\ CompIdle

Next ==
    \/ PollExit
    \/ PollEnqueue
    \/ PollNothing
    \/ PollCommit
    \/ PollHealth
    \/ PollWake
    \/ UploadExit
    \/ UploadBegin
    \/ FlushStart
    \/ UploadFetch
    \/ UploadNetError
    \/ UploadOtherError
    \/ ServerIngest
    \/ GatewayAnswer
    \/ UploadAck
    \/ UploadAckCommit
    \/ UploadRejected
    \/ UploadWake
    \/ SignalShutdown
    \/ SpoolClose
    \/ Crash
    \/ Start

Spec == Init /\ [][Next]_vars

(***************************************************************************)
(* The edge process left running: no signal, no crash.  The event loop     *)
(* runs every task that is ready, so each step of the two loops is weakly  *)
(* fair; transport failures are transient, so a request that keeps being   *)
(* sent is handled by the server, and a response that keeps being sent     *)
(* arrives.                                                                *)
(***************************************************************************)
LiveNext ==
    \/ PollEnqueue
    \/ PollNothing
    \/ PollCommit
    \/ PollHealth
    \/ PollWake
    \/ UploadBegin
    \/ UploadFetch
    \/ UploadNetError
    \/ UploadOtherError
    \/ ServerIngest
    \/ GatewayAnswer
    \/ UploadAck
    \/ UploadAckCommit
    \/ UploadRejected
    \/ UploadWake

LiveFairness ==
    /\ WF_vars(PollCommit) /\ WF_vars(PollHealth) /\ WF_vars(PollWake)
    /\ WF_vars(UploadBegin) /\ WF_vars(UploadFetch)
    /\ WF_vars(UploadAckCommit) /\ WF_vars(UploadWake)
    /\ SF_vars(ServerIngest)
    /\ SF_vars(UploadAck) /\ SF_vars(UploadRejected)

LiveSpec == Init /\ [][LiveNext]_vars /\ LiveFairness


(***************************************************************************)
(* The spool on its own (spool.py): one task enqueues and counts, one      *)
(* peeks and acks, with any arguments; the file is closed, the process     *)
(* crashes, the file is opened again.  poll_pc is the position of the      *)
(* first task, up_pc that of the second.                                   *)
(***************************************************************************)
\* the payloads are opaque to the spool; every second one is the same text
SpoolPayload(k) == ModelDumpJson(Sample(DeviceId, k % 2))

PeekArgs == (0 - 1)..MaxPeek

AckLists ==
    UNION {[1..len -> 1..(MaxSpoolRows + 1)] : len \in 0..MaxAckLen}

spool_other == <<run_pc, shutdown, restarts, clock, batch_size, max_backoff_s,
                 current_backoff, up_status, up_error, up_result, srv_vars,
                 ok200, enq_during>>

\* Spool.enqueue: the INSERT
HEnqueue ==
    /\ db_open /\ poll_pc = "head"
    /\ Len(enq_log) < MaxSpoolRows
    /\ LET payload == SpoolPayload(Len(enq_log))
       IN  /\ conn' = SqlInsert(conn, payload)
           /\ enq_log' = Append(enq_log, [rowid |-> AutoincrementRowid(conn),
                                          payload |-> payload])
    /\ peek_hist' = IF up_pc = "fetch" THEN peek_hist \cup {conn'.rows}
                    ELSE peek_hist
    /\ poll_pc' = "commit"
    /\ UNCHANGED <<disk, db_open, up_pc, health, peek_n, peek_snap, up_rows,
                   durable, deleted, acked, ack_calls, spool_other>>

\* Spool.enqueue: commit()
HEnqueueCommit ==
    /\ db_open /\ poll_pc = "commit"
    /\ disk' = Commit(conn)
    /\ durable' = durable \cup conn.rows
    /\ acked' = acked \cup (deleted \ Rowids(conn))
    /\ poll_pc' = "head"
    /\ UNCHANGED <<conn, db_open, up_pc, health, peek_n, peek_snap, up_rows,
                   enq_log, deleted, ack_calls, peek_hist, spool_other>>

\* Spool.count: the SELECT COUNT(*)
HCount ==
    /\ db_open /\ poll_pc = "head"
    /\ health' = [health EXCEPT !.spool_count = SqlCount(conn)]
    /\ poll_pc' = "counted"
    /\ UNCHANGED <<spool_vars, up_pc, peek_n, peek_snap, up_rows, enq_log,
                   durable, deleted, acked, ack_calls, peek_hist, spool_other>>

\* Spool.count: fetchone() and return; the caller is done with the value
HCountReturn ==
    /\ db_open /\ poll_pc = "counted"
    /\ poll_pc' = "head"
    /\ health' = NoHealth
    /\ UNCHANGED <<spool_vars, up_pc, peek_n, peek_snap, up_rows, enq_log,
                   durable, deleted, acked, ack_calls, peek_hist, spool_other>>

\* Spool.peek(n): [] at once when n < 1, else the SELECT
HPeek(n) ==
    /\ db_open /\ up_pc = "head"
    /\ peek_n' = n
    /\ up_rows' = <<>>
    /\ ack_calls' = <<>>
    /\ IF PeekSkips(n)
       THEN UNCHANGED <<up_pc, peek_snap, peek_hist>>
       ELSE /\ up_pc' = "fetch"
            /\ peek_snap' = conn.rows
            /\ peek_hist' = {conn.rows}
    /\ UNCHANGED <<spool_vars, poll_pc, health, enq_log, durable, deleted, acked,
                   spool_other>>

\* Spool.peek: fetchall() and return
HPeekFetch ==
    /\ db_open /\ up_pc = "fetch"
    /\ \E rows \in PeekResults(peek_snap, conn.rows, peek_n) : up_rows' = rows
    /\ peek_snap' = {}
    /\ peek_hist' = {}
    /\ up_pc' = "head"
    /\ UNCHANGED <<spool_vars, poll_pc, health, peek_n, enq_log, durable, deleted,
                   acked, ack_calls, spool_other>>

\* Spool.ack(rowids): nothing when the list is empty, else the DELETE
HAck(rowids) ==
    /\ db_open /\ up_pc = "head"
    /\ peek_n' = 0
    /\ up_rows' = <<>>
    /\ IF AckSkips(rowids)
       THEN /\ ack_calls' = <<>>
            /\ UNCHANGED <<conn, deleted, up_pc>>
       ELSE /\ ack_calls' = <<rowids>>
            /\ conn' = SqlDelete(conn, rowids)
            /\ deleted' = deleted \cup (Rowids(conn) \ Rowids(conn'))
            /\ up_pc' = "commit"
    /\ UNCHANGED <<disk, db_open, poll_pc, health, peek_snap,
                   enq_log, durable, acked, peek_hist, spool_other>>

\* Spool.ack: commit()
HAckCommit ==
    /\ db_open /\ up_pc = "commit"
    /\ disk' = Commit(conn)
    /\ durable' = durable \cup conn.rows
    /\ acked' = acked \cup (deleted \ Rowids(conn))
    /\ up_pc' = "head"
    /\ ack_calls' = <<>>
    /\ UNCHANGED <<conn, db_open, poll_pc, health, peek_n, peek_snap, up_rows,
                   enq_log, deleted, peek_hist, spool_other>>

\* what a connection that goes away leaves behind
HConnectionGone ==
    /\ db_open' = FALSE
    /\ conn' = OpenDb(disk)
    /\ poll_pc' = "head"
    /\ up_pc' = "head"
    /\ peek_n' = 0
    /\ peek_snap' = {}
    /\ peek_hist' = {}
    /\ up_rows' = <<>>
    /\ ack_calls' = <<>>
    /\ health' = NoHealth
    /\ RollBackHistory
    /\ UNCHANGED <<disk, spool_other>>

\* Spool.close, with no call in progress
HClose ==
    /\ db_open /\ poll_pc = "head" /\ up_pc = "head"
    /\ HConnectionGone

\* the process is killed or the host loses power, at any point of any call
HCrash ==
    /\ db_open
    /\ poll_pc # "head" \/ up_pc # "head"
    /\ HConnectionGone

\* Spool.open on the same file
HOpen ==
    /\ ~db_open /\ restarts < MaxRestarts
    /\ restarts' = restarts + 1
    /\ db_open' = TRUE
    /\ conn' = OpenDb(disk)
    /\ UNCHANGED <<disk, run_pc, shutdown, poll_pc, up_pc, clock, health,
                   upl_vars, srv_vars, hist_vars>>

SpoolNext ==
    \/ HEnqueue
    \/ HEnqueueCommit
    \/ HCount
    \/ HCountReturn
    \/ \E n \in PeekArgs : HPeek(n)
    \/ HPeekFetch
    \/ \E rowids \in AckLists : HAck(rowids)
    \/ HAckCommit
    \/ HClose
    \/ HCrash
    \/ HOpen

SpoolInit ==
    /\ Init
    /\ batch_size = 1
    /\ max_samples = 1

SpoolSpec == SpoolInit /\ [][SpoolNext]_vars

(***************************************************************************)
(* Properties of the spool, checked under SpoolSpec.                       *)
(***************************************************************************)
Ascending(rows) ==
    \A i \in 1..(Len(rows) - 1) : rows[i].rowid < rows[i + 1].rowid

\* rows appear in the order in which they were enqueued
InEnqueueOrder(rows) ==
    \A i, j \in DOMAIN rows :
        i < j => \E a, b \in DOMAIN enq_log :
                    a < b /\ enq_log[a] = rows[i] /\ enq_log[b] = rows[j]

\* C6: spool sequences are strictly increasing in enqueue order and never
\* reused, whatever was acked, drained, closed, reopened or restarted between.
C6_RowidsNeverReused ==
    /\ \A i, j \in DOMAIN enq_log :
          i < j => enq_log[i].rowid < enq_log[j].rowid
    /\ \A r \in conn.rows : \A id \in acked : r.rowid # id

\* C6 witness: after a restart a row was enqueued into a spool whose earlier
\* rows, the highest included, had all been acked
C6_Witness ==
    /\ db_open /\ restarts >= 1
    /\ Len(enq_log) >= 2
    /\ disk.rows = {}
    /\ conn.rows = {enq_log[Len(enq_log)]}
    /\ acked = {enq_log[i].rowid : i \in 1..(Len(enq_log) - 1)}

\* C7: peek(n) returns the min(n, count) pending rows with the lowest
\* rowids in ascending rowid order, which is enqueue order; it returns the
\* empty list when the spool is empty or n <= 0; it leaves the spool as it
\* is, and a peek repeated at once returns the same list.
C7_PeekLowestAscending ==
    [][((\E n \in PeekArgs : HPeek(n) /\ PeekSkips(n)) \/ HPeekFetch) =>
          LET res == up_rows'
              n == peek_n'
              pending == conn.rows
              quiet == PeekSkips(n) \/ peek_hist = {pending}
          IN  /\ conn' = conn /\ disk' = disk
              /\ Ascending(res)
              /\ InEnqueueOrder(res)
              /\ (n <= 0 \/ pending = {}) => res = <<>>
              /\ quiet =>
                    /\ Len(res) = Min(IF n < 0 THEN 0 ELSE n, Cardinality(pending))
                    /\ Range(res) \subseteq pending
                    /\ \A r \in Range(res) : \A q \in pending \ Range(res) :
                          r.rowid < q.rowid
                    /\ n >= 1 => PeekResults(conn'.rows, conn'.rows, n) = {res}
    ]_vars

\* C7 witness: a peek returned fewer rows than are pending, and one returned
\* nothing for n = 0 while rows were pending
C7_Witness ==
    /\ db_open /\ up_pc = "head"
    /\ peek_n >= 2 /\ Len(up_rows) = peek_n /\ SqlCount(conn) > peek_n
    /\ up_rows = SqlPeek(conn.rows, peek_n)

\* C8: ack(rowids) removes exactly the pending rows whose rowid is listed
\* and leaves every other row as it is; rowids that are not pending are
\* ignored; ack([]) does nothing; the count goes down by the number of
\* pending rowids listed; after the commit the rows are gone from the file.
C8_AckRemovesListed ==
    [][/\ (up_pc = "head" /\ up_pc' = "commit") =>
             LET ids == ack_calls'[1]
             IN  /\ HAck(ids)
                 /\ conn'.rows = {r \in conn.rows : r.rowid \notin Range(ids)}
                 /\ conn'.seq = conn.seq
                 /\ SqlCount(conn') =
                        SqlCount(conn) - Cardinality(Range(ids) \cap Rowids(conn))
                 /\ disk' = disk
       /\ HAck(<<>>) => conn' = conn /\ disk' = disk /\ up_pc' = up_pc
       /\ HAckCommit =>
             /\ conn' = conn
             /\ disk'.rows = conn.rows
             /\ Range(ack_calls[1]) \cap deleted \cap Rowids(disk') = {}
    ]_vars

\* C8 witness: an ack that listed a pending rowid and a rowid never assigned
\* has run its DELETE, and another row is still pending
C8_Witness ==
    /\ db_open /\ up_pc = "commit" /\ ack_calls # <<>>
    /\ \E i, j \in DOMAIN ack_calls[1] :
          /\ ack_calls[1][i] \in deleted \ Rowids(conn)
          /\ ack_calls[1][i] \in Rowids(disk)
          /\ ack_calls[1][j] \notin Range(RowidsOf(enq_log))
    /\ conn.rows # {}

\* C9: the spool survives a restart: a row enqueued and not acked is pending
\* when the file is opened again, and no acked rowid is pending or returned
\* by a peek afterwards, before or after a restart.
C9_SurvivesRestart ==
    /\ [](/\ disk.rows = {r \in durable : r.rowid \notin acked}
          /\ {r \in durable : r.rowid \notin deleted} \subseteq conn.rows
          /\ conn.rows \subseteq {e \in Range(enq_log) : e.rowid \notin acked})
    /\ [][HOpen => conn'.rows = {r \in durable : r.rowid \notin acked}]_vars
    /\ [][HPeekFetch => Range(RowidsOf(up_rows')) \cap acked = {}]_vars

\* C9 witness: after the file was opened again, with acked rows in the past, a
\* peek returned exactly the rows that were committed and not acked
C9_Witness ==
    /\ db_open /\ restarts >= 1 /\ up_pc = "head" /\ poll_pc = "head"
    /\ acked # {}
    /\ up_rows # <<>>
    /\ Range(up_rows) = {r \in durable : r.rowid \notin acked}
    /\ conn = disk

\* C10: with one task enqueuing and counting while another peeks and acks on
\* the same connection, no row is lost or duplicated, count() is the number
\* enqueued minus the number removed by ack, a peek returns the ascending
\* prefix of the rows pending at some instant during the call, and every call
\* in progress can take its next step.
C10_ConcurrentUse ==
    /\ [](restarts = 0 /\ db_open =>
            /\ conn.rows = {e \in Range(enq_log) : e.rowid \notin deleted}
            /\ \A r, q \in conn.rows : r.rowid = q.rowid => r = q
            /\ Cardinality(Range(enq_log)) = Len(enq_log)
            /\ poll_pc = "commit" => ENABLED HEnqueueCommit
            /\ poll_pc = "counted" => ENABLED HCountReturn
            /\ up_pc = "fetch" => ENABLED HPeekFetch
            /\ up_pc = "commit" => ENABLED HAckCommit)
    /\ [][restarts = 0 /\ HCount =>
             health'.spool_count = Len(enq_log) - Cardinality(deleted)]_vars
    /\ [][restarts = 0 /\ HPeekFetch =>
             /\ Ascending(up_rows')
             /\ \E pending \in peek_hist : up_rows' = SqlPeek(pending, peek_n)]_vars

\* C10 witness: count() ran between the DELETE of an ack and its commit, after
\* three rows had been enqueued and one removed
C10_Witness ==
    /\ restarts = 0 /\ db_open
    /\ poll_pc = "counted" /\ up_pc = "commit"
    /\ Len(enq_log) = 3 /\ Cardinality(deleted) = 1
    /\ health.spool_count = 2

(***************************************************************************)
(* The server on its own: ingest requests of any content handled at the    *)
(* same time, each in its own database session (api/ingest.py,             *)
(* services/ingestion.py).                                                 *)
(***************************************************************************)
srv_other == <<spool_vars, super_vars, upl_vars, net, net_status, max_samples,
               max_request_bytes, comp_vars, api_vars, hist_vars>>

\* ingest(): the checks; a request that passes them enters ingest_samples
SrvReceive(h, rq) ==
    /\ txns[h].pc = "idle"
    /\ LET rej == IngestReject(rq, max_request_bytes, max_samples)
       IN  txns' = [txns EXCEPT ![h] =
                      IF rej = 0
                      THEN [IdleTxn EXCEPT !.pc = "insert", !.auth = rq.auth,
                                           !.n = Len(rq.samples),
                                           !.left = Len(rq.samples)]
                      ELSE [IdleTxn EXCEPT !.pc = "respond", !.auth = rq.auth,
                                           !.status = rej]]
    /\ UNCHANGED <<store, cache, srv_other>>

\* db.execute(stmt): the next row of VALUES; it waits while another
\* transaction holds its key
SrvInsertRow(h, sample) ==
    /\ txns[h].pc = "insert" /\ txns[h].left > 0
    /\ sample \in OwnSamples(txns[h].auth)
    /\ ~HeldByOther(h, sample)
    /\ LET visible == store (+) txns[h].written
       IN  txns' = [txns EXCEPT ![h].left = @ - 1,
                                ![h].written = InsertRow(visible, sample) (-) store]
    /\ UNCHANGED <<store, cache, srv_other>>

\* the statement or the commit fails (deadlock victim, lost connection): the
\* transaction is rolled back and the request is answered 500
SrvAbort(h) ==
    /\ txns[h].pc = "insert"
    /\ txns' = [txns EXCEPT ![h] = [IdleTxn EXCEPT !.pc = "respond",
                                                   !.auth = txns[h].auth,
                                                   !.n = txns[h].n,
                                                   !.status = 500]]
    /\ UNCHANGED <<store, cache, srv_other>>

\* db.commit(), inserted = result.rowcount
SrvCommit(h) ==
    /\ txns[h].pc = "insert" /\ txns[h].left = 0
    /\ store' = store (+) txns[h].written
    /\ LET inserted == BagCardinality(txns[h].written)
       IN  txns' = [txns EXCEPT ![h].written = EmptyBag,
                                ![h].inserted = inserted,
                                ![h].status = 200,
                                ![h].pc = IF inserted > 0 THEN "invalidate"
                                          ELSE "respond"]
    /\ UNCHANGED <<cache, srv_other>>

\* if inserted > 0: invalidate_device_cache(device_id)
SrvInvalidate(h) ==
    /\ txns[h].pc = "invalidate"
    /\ cache' \in InvalidateResults(cache, txns[h].auth)
    /\ txns' = [txns EXCEPT ![h].pc = "respond"]
    /\ UNCHANGED <<store, srv_other>>

\* the response is sent, the handler is free again
SrvRespond(h) ==
    /\ txns[h].pc = "respond"
    /\ txns' = [txns EXCEPT ![h] = IdleTxn]
    /\ UNCHANGED <<store, cache, srv_other>>

ServerNext ==
    \/ \E h \in Handlers : \E rq \in SrvRequests : SrvReceive(h, rq)
    \/ \E h \in Handlers : \E sample \in OwnSamples(DeviceId) : SrvInsertRow(h, sample)
    \/ \E h \in Handlers : SrvAbort(h)
    \/ \E h \in Handlers : SrvCommit(h)
    \/ \E h \in Handlers : SrvInvalidate(h)
    \/ \E h \in Handlers : SrvRespond(h)

ServerInit ==
    /\ Init
    /\ batch_size = 1
    /\ max_samples = MaxBatch

ServerSpec == ServerInit /\ [][ServerNext]_vars

(***************************************************************************)
(* Properties of the store, checked under ServerSpec.                      *)
(***************************************************************************)
\* C2: the store holds at most one row per (device_id, ts), whatever ingest
\* requests were handled: batches delivered again, batches that repeat a key,
\* requests handled at the same time.
C2_OneRowPerKey ==
    \A r, q \in BagToSet(store) :
        /\ CopiesIn(r, store) = 1
        /\ SampleKey(r) = SampleKey(q) => r = q

\* C2 witness: a request of two rows found its keys stored and inserted
\* nothing, while another transaction, whose two rows had the same key, holds
\* one row it has not committed
C2_Witness ==
    \E h, g \in Handlers :
        /\ h # g
        /\ txns[h].pc = "respond" /\ txns[h].status = 200
        /\ txns[h].n = 2 /\ txns[h].inserted = 0
        /\ store # EmptyBag
        /\ txns[g].pc = "insert" /\ txns[g].left = 0 /\ txns[g].n = 2
        /\ BagCardinality(txns[g].written) = 1

(***************************************************************************)
(* Delivery, checked under LiveSpec.                                       *)
(***************************************************************************)
\* the i-th enqueued sample is stored by the server and out of the spool
Delivered(i) ==
    /\ Len(enq_log) >= i
    /\ enq_log[i].rowid \notin Rowids(conn) \cup Rowids(disk)
    /\ \E row \in BagToSet(store) : SampleKey(row) = SampleKey(JsonLoads(enq_log[i].payload))

\* C3: every sample enqueued in the spool is eventually stored by the server
\* and acknowledged out of the spool, whatever batch_size and
\* max_samples_per_request are.
C3_EveryEnqueuedDelivered ==
    \A i \in 1..MaxEnqueue : (Len(enq_log) >= i) ~> Delivered(i)

\* delivery where one request can carry a whole batch
C3_DeliveredWhenBatchFits ==
    \A i \in 1..MaxEnqueue :
        (batch_size <= max_samples /\ Len(enq_log) >= i) ~> Delivered(i)

\* the upload loop is stuck on a batch the server refuses for its size
C3_StuckOn413 ==
    /\ up_status = 413 /\ up_result = "false"
    /\ Len(up_rows) > max_samples
    /\ Range(up_rows) \subseteq conn.rows
    /\ store = EmptyBag

(***************************************************************************)
(* Properties of the edge process, checked under Spec.                     *)
(***************************************************************************)
\* the rows a peek(n) on row set `rows` offers
IsPrefix(s, t) == Len(s) <= Len(t) /\ SubSeq(t, 1, Len(s)) = s

\* C1: no sample leaves the spool before the server accepted it: every row a
\* DELETE has removed, and every committed row that the file or the
\* connection no longer holds, belonged to a batch whose POST was answered 200.
C1_DeletedOnlyAfter200 ==
    /\ deleted \subseteq ok200
    /\ \A r \in durable :
          (r \notin disk.rows \/ r \notin conn.rows) => r.rowid \in ok200

\* C1 witness: a committed row is gone from the file after its batch was
\* answered 200, while another batch has been refused
C1_Witness ==
    /\ \E r \in durable : r \notin disk.rows /\ r.rowid \in ok200
    /\ up_result = "false" /\ up_status # 0 /\ up_rows # <<>>

\* C4: when upload_batch returns True, ack was called exactly once, with
\* exactly the rowids its own peek(batch_size) returned, in that order; the
\* rows enqueued while the POST was in flight are not acked and still pending.
C4_AckExactlyPeeked ==
    up_result = "true" =>
        /\ ack_calls = <<RowidsOf(up_rows)>>
        /\ up_rows # <<>>
        /\ Len(up_rows) <= batch_size
        /\ \A i \in 1..(Len(up_rows) - 1) : up_rows[i].rowid < up_rows[i + 1].rowid
        /\ enq_during \cap Range(RowidsOf(up_rows)) = {}
        /\ enq_during \subseteq Rowids(conn)
        /\ Range(RowidsOf(up_rows)) \cap Rowids(conn) = {}

\* C4 witness: upload_batch returned True and a row was enqueued while its
\* POST was in flight
C4_Witness ==
    /\ up_result = "true"
    /\ enq_during # {}
    /\ ack_calls = <<RowidsOf(up_rows)>>

\* a step in which upload_batch ends on a connect error, a timeout or a
\* response whose status is not 2xx
FailedUploadStep ==
    /\ up_pc = "posting"
    /\ up_pc' \in {"sleep", "done"}
    /\ run_pc' # "down"
    /\ \/ up_error' = "network"
       \/ up_status' # 0 /\ up_status' \notin 200..299

\* C5: on a non-2xx response, a timeout or a connect error upload_batch acks
\* nothing and leaves the spool as it is, doubles the backoff capped at
\* max_backoff_s and returns False; the same rows are offered by the next peek.
C5_FailureKeepsRows ==
    [][FailedUploadStep =>
          /\ conn' = conn
          /\ disk' = disk
          /\ ack_calls' = <<>>
          /\ deleted' = deleted
          /\ current_backoff' = Min(2 * current_backoff, max_backoff_s)
          /\ current_backoff' <= max_backoff_s
          /\ up_result' = "false"
          /\ IsPrefix(up_rows, SqlPeek(conn'.rows, batch_size))]_vars

\* C5 witness: a failed upload has left the backoff at its cap with the
\* peeked rows still in the spool
C5_Witness ==
    /\ up_result = "false"
    /\ up_rows # <<>>
    /\ up_status \in {413, 502}
    /\ current_backoff = max_backoff_s
    /\ Range(RowidsOf(up_rows)) \subseteq Rowids(conn)

(***************************************************************************)
(* The API on its own, one request at a time (api/ingest.py,               *)
(* api/realtime.py, api/series.py): requests of two devices build up the   *)
(* table and the cache, then an ingest request of any content is sent, and *)
(* sent once more as a redelivery.                                         *)
(***************************************************************************)
SeqsUpTo(S, n) == UNION {[1..k -> S] : k \in 0..n}

\* a well-formed ingest request carrying these samples
GoodIngest(auth, samples) ==
    [auth |-> auth, cl_present |-> TRUE, cl_numeric |-> TRUE,
     cl_value |-> JsonBytes(samples), body_len |-> JsonBytes(samples),
     schema_ok |-> TRUE, samples |-> samples]

\* single-sample requests of both devices
SmallIngests ==
    {GoodIngest(DeviceId, <<s>>) : s \in OwnSamples(DeviceId)}
        \cup {GoodIngest(OtherDevice, <<Sample(OtherDevice, 1)>>)}

\* requests of DeviceId's token with any batch of its samples and of a sample
\* of the other device, in any order and with repetitions
BatchIngests ==
    LET alphabet == {Sample(DeviceId, t) : t \in 1..MaxTs}
                        \cup {Sample(OtherDevice, 1)}
    IN  {GoodIngest(DeviceId, b) : b \in SeqsUpTo(alphabet, MaxBatch + 1)}

\* requests that fail any combination of the checks
FaultyIngests ==
    LET over == DEFAULT_MAX_REQUEST_BYTES + 1
        bodies == {<<>>, <<Sample(DeviceId, 1)>>, <<Sample(OtherDevice, 1)>>,
                   [i \in 1..(MaxBatch + 1) |-> Sample(DeviceId, 1)]}
    IN  {[auth |-> a, cl_present |-> cl # "absent", cl_numeric |-> cl # "text",
          cl_value |-> IF cl = "over" THEN over ELSE JsonBytes(b),
          body_len |-> IF big THEN over ELSE JsonBytes(b),
          schema_ok |-> ok, samples |-> b] :
            a \in {NoDevice, DeviceId, OtherDevice},
            cl \in {"absent", "text", "over", "fits"},
            big \in BOOLEAN, ok \in BOOLEAN, b \in bodies}

ApiIngests == BatchIngests \cup FaultyIngests

\* POST /v1/ingest handled from the request to the response
ApiIngest(rq) ==
    LET rej == IngestReject(rq, max_request_bytes, max_samples)
        rows == IF rej = 0 THEN InsertAll(store, rq.samples) ELSE store
        inserted == BagCardinality(rows) - BagCardinality(store)
    IN  /\ store' = rows
        /\ IF ShouldInvalidate(inserted)
           THEN cache' \in InvalidateResults(cache, rq.auth)
           ELSE cache' = cache
        /\ api_resp' = [Response("ingest", IF rej = 0 THEN 200 ELSE rej)
                            EXCEPT !.inserted = inserted,
                                   !.used = IF rej = 0 THEN {"db"} ELSE {}]
        /\ UNCHANGED <<spool_vars, super_vars, upl_vars, net, net_status,
                       max_samples, max_request_bytes, comp_vars, txns, rts, ing, rt_seen,
                       rt_acked, hist_vars>>

\* an ingest of one sample
ApiIngestOne(rq) ==
    /\ prev_ingest = <<>>
    /\ ApiIngest(rq)
    /\ UNCHANGED prev_ingest

\* an ingest request of any content
ApiIngestAny(rq) ==
    /\ prev_ingest = <<>>
    /\ ApiIngest(rq)
    /\ prev_ingest' = <<rq>>

\* the same request once more
ApiIngestAgain ==
    /\ Len(prev_ingest) = 1
    /\ ApiIngest(prev_ingest[1])
    /\ prev_ingest' = Append(prev_ingest, prev_ingest[1])

\* GET /v1/realtime?device_id=d with the token of `auth`
RealtimeRequests ==
    {[auth |-> a, device_id |-> d] :
        a \in {NoDevice, DeviceId, OtherDevice}, d \in {DeviceId, OtherDevice}}

\* only the token is verified
RealtimeRejectTokenOnly(rq) ==
    IF rq.auth = NoDevice THEN 401 ELSE 0

\* the token is verified, then the device named in the query is compared
\* with the device of the token: the status of the refusal, 0 when none
RealtimeReject(rq) ==
    IF rq.auth = NoDevice THEN 401
    ELSE IF rq.device_id # rq.auth THEN 403
    ELSE 0

\* what redis.get hands to the handler: the text under the key, NoText when
\* there is none and when Redis cannot be reached
CacheRead(entries, key, up) ==
    IF up THEN CacheGet(entries, key) ELSE NoText

\* realtime(): the response, given the table and what the cache returned
RealtimeAnswer(rq, rows, cached) ==
    LET sample == LatestSample(rows, rq.device_id)
    IN  IF RealtimeReject(rq) # 0 THEN Response("realtime", RealtimeReject(rq))
        ELSE IF cached # NoText
        THEN [Response("realtime", 200) EXCEPT !.body = JsonLoads(cached),
                                               !.used = {"cache"}]
        ELSE IF sample = NoSample
        THEN [Response("realtime", 404) EXCEPT !.used = {"cache", "db"}]
        ELSE [Response("realtime", 200) EXCEPT !.body = SampleToDict(sample),
                                               !.used = {"cache", "db"}]

\* GET /v1/realtime handled from the request to the response; getUp and
\* setUp tell whether Redis can be reached by the read and by the write
ApiRealtime(rq, getUp, setUp) ==
    /\ prev_ingest = <<>>
    /\ LET key == CacheKey(rq.device_id)
           cached == CacheRead(cache, key, getUp)
           answer == RealtimeAnswer(rq, store, cached)
       IN  /\ api_resp' = answer
           /\ cache' = IF answer.status = 200 /\ "db" \in answer.used /\ setUp
                       THEN CacheSet(cache, key, JsonDumps(answer.body))
                       ELSE cache
    /\ UNCHANGED <<spool_vars, super_vars, upl_vars, net, net_status,
                   max_samples, max_request_bytes, comp_vars, store, txns, rts, ing,
                   rt_seen, rt_acked, prev_ingest, hist_vars>>

\* an entry of the cache reaches its TTL
CacheExpire ==
    /\ prev_ingest = <<>>
    /\ \E e \in cache : cache' = cache \ {e}
    /\ UNCHANGED <<spool_vars, super_vars, upl_vars, net, net_status,
                   max_samples, max_request_bytes, comp_vars, store, txns, api_vars,
                   hist_vars>>

\* FRAME_CONFIG.keys()
VALID_FRAMES == {"day", "month", "year", "all"}

\* GET /v1/series?device_id=d&frame=f with the token of `auth`
SeriesRequests ==
    {[auth |-> a, device_id |-> d, frame |-> f] :
        a \in {NoDevice, DeviceId, OtherDevice}, d \in {DeviceId, OtherDevice},
        f \in VALID_FRAMES \cup {"week"}}

\* get_series(): the status of the refusal, 0 when the query is run
SeriesReject(rq) ==
    IF rq.auth = NoDevice THEN 401
    ELSE IF rq.frame \notin VALID_FRAMES THEN 422
    ELSE IF rq.device_id # rq.auth THEN 403
    ELSE 0

\* GET /v1/series handled from the request to the response
ApiSeries(rq) ==
    /\ prev_ingest = <<>>
    /\ api_resp' = IF SeriesReject(rq) # 0
                   THEN Response("series", SeriesReject(rq))
                   ELSE [Response("series", 200) EXCEPT !.used = {"db"}]
    /\ UNCHANGED <<spool_vars, super_vars, upl_vars, net, net_status,
                   max_samples, max_request_bytes, comp_vars, store, txns, cache, rts, ing,
                   rt_seen, rt_acked, prev_ingest, hist_vars>>

ApiNext ==
    \/ \E rq \in SmallIngests : ApiIngestOne(rq)
    \/ \E rq \in ApiIngests : ApiIngestAny(rq)
    \/ ApiIngestAgain
    \/ \E rq \in RealtimeRequests : \E getUp, setUp \in BOOLEAN :
          ApiRealtime(rq, getUp, setUp)
    \/ CacheExpire
    \/ \E rq \in SeriesRequests : ApiSeries(rq)

ApiInit ==
    /\ Init
    /\ batch_size = 1
    /\ max_samples = MaxBatch

ApiSpec == ApiInit /\ [][ApiNext]_vars

KeysOf(samples) == {SampleKey(samples[i]) : i \in DOMAIN samples}
StoredKeys(rows) == {SampleKey(r) : r \in BagToSet(rows)}

\* C11: ingest is idempotent: an accepted ingest reports as inserted the
\* number of distinct (device_id, ts) keys of its batch that were not stored
\* and stores exactly those keys; the same batch sent again is answered 200
\* with inserted = 0 and leaves the table as it is, so both together
\* inserted the distinct keys of the batch that were not stored before.
C11_IngestIdempotent ==
    [][/\ (/\ prev_ingest = <<>> /\ Len(prev_ingest') = 1
           /\ ApiIngestAny(prev_ingest'[1]) /\ api_resp'.status = 200) =>
             LET fresh == KeysOf(prev_ingest'[1].samples) \ StoredKeys(store)
             IN  /\ api_resp'.inserted = Cardinality(fresh)
                 /\ StoredKeys(store') = StoredKeys(store) \cup fresh
                 /\ BagCardinality(store') =
                        BagCardinality(store) + Cardinality(fresh)
                 /\ store \sqsubseteq store'
       /\ (ApiIngestAgain /\ api_resp.status = 200) =>
             /\ api_resp'.status = 200
             /\ api_resp'.inserted = 0
             /\ store' = store
    ]_vars

\* C11 witness: a batch of two keys, one of them stored before with another
\* value, was ingested and then ingested again, which inserted nothing
C11_Witness ==
    /\ Len(prev_ingest) = 2
    /\ api_resp.status = 200 /\ api_resp.inserted = 0
    /\ LET batch == prev_ingest[1].samples
       IN  /\ Cardinality(KeysOf(batch)) = 2
           /\ \E i, j \in DOMAIN batch :
                 /\ CopiesIn(batch[i], store) = 1
                 /\ CopiesIn(batch[j], store) = 0
                 /\ CopiesIn([batch[j] EXCEPT !.pv_power_w = 1], store) = 1

HasForeign(rq) == \E i \in DOMAIN rq.samples : rq.samples[i].device_id # rq.auth

\* C12: a token writes rows of its own device only: every row an ingest adds
\* carries the device of the request's token, and a request whose batch
\* holds a sample of another device writes no row at all; when it passes the
\* checks made before, it is answered 403.
C12_OwnRowsOnly ==
    [][/\ \A rq \in SmallIngests : ApiIngestOne(rq) =>
             \A row \in BagToSet(store' (-) store) : row.device_id = rq.auth
       /\ prev_ingest' # prev_ingest =>
             LET rq == prev_ingest'[1]
             IN  /\ \A row \in BagToSet(store' (-) store) : row.device_id = rq.auth
                 /\ HasForeign(rq) => store' = store /\ api_resp'.status # 200
                 /\ (/\ HasForeign(rq) /\ rq.auth # NoDevice
                     /\ rq = GoodIngest(rq.auth, rq.samples)
                     /\ Len(rq.samples) <= max_samples) => api_resp'.status = 403
    ]_vars

\* C12 witness: a batch of a sample of the token's device, not stored yet,
\* followed by a sample of the other device was answered 403, and the table
\* holds rows of both devices, none with the key of the first sample
C12_Witness ==
    /\ Len(prev_ingest) = 1
    /\ prev_ingest[1] = GoodIngest(DeviceId, <<Sample(DeviceId, 1), Sample(OtherDevice, 1)>>)
    /\ api_resp.status = 403
    /\ SampleKey(Sample(DeviceId, 1)) \notin StoredKeys(store)
    /\ CopiesIn(Sample(OtherDevice, 1), store) = 1
    /\ \E r \in BagToSet(store) : r.device_id = DeviceId

\* the checks a request fails, in the order of the claim, with the status of each
FailedChecks(rq) ==
    <<rq.auth = NoDevice,
      rq.cl_present /\ ~rq.cl_numeric,
      rq.cl_present /\ rq.cl_numeric /\ rq.cl_value > max_request_bytes,
      rq.body_len > max_request_bytes,
      ~rq.schema_ok,
      rq.samples = <<>>,
      Len(rq.samples) > max_samples,
      HasForeign(rq)>>

CheckStatuses == <<401, 400, 413, 413, 422, 200, 413, 403>>

\* C13: ingest applies its checks in a fixed order: a request is answered
\* with the status of the first check it fails among 401 (token), 400
\* (Content-Length not a number), 413 (Content-Length over the limit), 413
\* (body over the limit), 422 (schema), 200 with inserted = 0 (empty batch),
\* 413 (too many samples), 403 (foreign sample); only a request that fails
\* none reaches the insert.
C13_CheckOrder ==
    [][prev_ingest' # prev_ingest =>
          LET rq == prev_ingest'[1]
              failed == {i \in DOMAIN CheckStatuses : FailedChecks(rq)[i]}
          IN  IF failed # {}
              THEN /\ api_resp'.status = CheckStatuses[CHOOSE i \in failed :
                                                          \A j \in failed : i <= j]
                   /\ api_resp'.inserted = 0
                   /\ "db" \notin api_resp'.used
              ELSE /\ api_resp'.status = 200
                   /\ "db" \in api_resp'.used
    ]_vars

\* C13 witness: a well-formed request with more samples than allowed, one of
\* them of another device, was answered 413
C13_Witness ==
    /\ Len(prev_ingest) = 1
    /\ LET rq == prev_ingest[1]
       IN  /\ rq = GoodIngest(DeviceId, rq.samples)
           /\ Len(rq.samples) > max_samples
           /\ HasForeign(rq)
    /\ api_resp.status = 413

\* C14: an ingest request that is rejected (401, 400, 413, 422, 403) or
\* carries no sample leaves the table and the realtime cache as they were.
C14_RejectedChangesNothing ==
    [][(/\ prev_ingest' # prev_ingest
        /\ \/ api_resp'.status # 200
           \/ prev_ingest'[1].samples = <<>>) =>
          /\ store' = store
          /\ cache' = cache
    ]_vars

\* C14 witness: a request with a foreign sample was answered 403 while the
\* table held rows and the cache held the realtime entry of the token's device
C14_Witness ==
    /\ Len(prev_ingest) = 1
    /\ api_resp.status = 403
    /\ prev_ingest[1].auth = DeviceId
    /\ store # EmptyBag
    /\ CacheGet(cache, CacheKey(DeviceId)) # NoText

\* C18: realtime serves a token its own device only: a query for another
\* device is answered 403 before the cache or the table is read or written,
\* and no realtime response carries a sample of a device other than the
\* token's.
C18_RealtimeOwnership ==
    [][\A rq \in RealtimeRequests : \A getUp, setUp \in BOOLEAN :
          ApiRealtime(rq, getUp, setUp) =>
             /\ (rq.auth # NoDevice /\ rq.device_id # rq.auth) =>
                   /\ api_resp'.status = 403
                   /\ api_resp'.used = {}
                   /\ cache' = cache
                   /\ store' = store
             /\ api_resp'.status = 200 => api_resp'.body.device_id = rq.auth
             /\ api_resp'.status # 200 => api_resp'.body = NoSample
    ]_vars

\* C18 witness: a realtime request was answered 403 while the table held
\* rows of both devices and the cache an entry of each
C18_Witness ==
    /\ api_resp = Response("realtime", 403)
    /\ \A d \in {DeviceId, OtherDevice} :
          /\ CacheGet(cache, CacheKey(d)) # NoText
          /\ \E r \in BagToSet(store) : r.device_id = d

\* the answer of realtime that the table alone determines
FromTable(rq, resp) ==
    LET own == {r \in BagToSet(store) : r.device_id = rq.device_id}
    IN  IF own = {} THEN resp.status = 404 /\ resp.body = NoSample
        ELSE /\ resp.status = 200
             /\ \E r \in own : /\ \A q \in own : q.ts <= r.ts
                               /\ resp.body.device_id = r.device_id
                               /\ resp.body.ts = r.ts
                               /\ resp.body.pv_power_w = r.pv_power_w

\* C19: the endpoints work without the cache: when every get, set and
\* delete fails, realtime answers with the stored sample of the greatest ts
\* (404 when there is none), as it does with a working cache that is empty,
\* and leaves the cache alone; an ingest whose delete failed is answered 200
\* with the number of rows it added.
C19_WorksWithoutCache ==
    [][/\ \A rq \in RealtimeRequests : \A up \in BOOLEAN :
             /\ (/\ RealtimeReject(rq) = 0
                 /\ \/ ApiRealtime(rq, FALSE, FALSE)
                    \/ cache = {} /\ ApiRealtime(rq, TRUE, up)) =>
                   (FromTable(rq, api_resp') /\ store' = store)
             /\ ApiRealtime(rq, FALSE, FALSE) => cache' = cache
       /\ (/\ prev_ingest' # prev_ingest
           /\ store' # store
           /\ cache' = cache) =>
              /\ api_resp'.status = 200
              /\ api_resp'.inserted =
                    Cardinality(KeysOf(prev_ingest'[1].samples) \ StoredKeys(store))
              /\ api_resp'.inserted = BagCardinality(store' (-) store)
    ]_vars

\* C19 witness: realtime answered from the table with the sample of the
\* greatest ts while the cache still holds an older sample of the device: the
\* delete of the ingest, the get and the set of this request all failed
C19_Witness ==
    /\ api_resp.endpoint = "realtime" /\ api_resp.status = 200
    /\ "db" \in api_resp.used
    /\ api_resp.body.ts = MaxTs
    /\ LET cached == CacheGet(cache, CacheKey(api_resp.body.device_id))
       IN  cached # NoText /\ JsonLoads(cached).ts < MaxTs

\* C20: GET /v1/series looks at the frame only after the token and the
\* device match: a query for another device is answered 403 whatever its
\* frame, and 422 is given only to queries for the token's own device.
C20_DeviceBeforeFrame ==
    [][\A rq \in SeriesRequests :
          ApiSeries(rq) =>
             /\ (rq.auth # NoDevice /\ rq.device_id # rq.auth) =>
                   api_resp'.status = 403
             /\ api_resp'.status = 422 => rq.device_id = rq.auth
    ]_vars

(***************************************************************************)
(* Realtime requests handled while an ingest of the same device runs       *)
(* (api/realtime.py, services/ingestion.py): every await of a handler is a *)
(* step of its own, and the handlers share the table and the cache. The    *)
(* other device has a row and a cache entry from before.                   *)
(***************************************************************************)
rt_other == <<spool_vars, super_vars, upl_vars, net, net_status, max_samples,
              max_request_bytes, comp_vars, txns, api_resp, prev_ingest, hist_vars>>

\* batches of the device that pass the checks of ingest()
RtBatches ==
    SeqsUpTo({Sample(DeviceId, t) : t \in 1..MaxTs}, MaxBatch) \ {<<>>}

\* ingest_samples: db.execute(stmt), db.commit(), inserted = result.rowcount
RtIngestCommit(samples) ==
    /\ ing.pc = "idle"
    /\ store' = InsertAll(store, samples)
    /\ LET inserted == BagCardinality(store') - BagCardinality(store)
       IN  ing' = [ing EXCEPT !.added = store' (-) store,
                              !.inserted = inserted,
                              !.status = 200,
                              !.pc = IF ShouldInvalidate(inserted)
                                     THEN "invalidate" ELSE "respond"]
    /\ UNCHANGED <<cache, rts, rt_seen, rt_acked, rt_other>>

\* ingest_samples: await invalidate_device_cache(device_id)
RtIngestInvalidate ==
    /\ ing.pc = "invalidate"
    /\ cache' \in InvalidateResults(cache, DeviceId)
    /\ \E done \in {"deleted", "failed"} :
          /\ done = "deleted" => CacheGet(cache', CacheKey(DeviceId)) = NoText
          /\ done = "failed" => cache' = cache
          /\ ing' = [ing EXCEPT !.invalidated = done, !.pc = "respond"]
    /\ UNCHANGED <<store, rts, rt_seen, rt_acked, rt_other>>

\* ingest: return IngestResponse(inserted=inserted)
RtIngestRespond ==
    /\ ing.pc = "respond"
    /\ LET latest == LatestSample(store, DeviceId)
       IN  rt_acked' = IF CopiesIn(latest, ing.added) > 0 THEN latest.ts
                       ELSE rt_acked
    /\ ing' = IdleIngest
    /\ UNCHANGED <<store, cache, rts, rt_seen, rt_other>>

\* realtime: a request that names the device with the token of another one
\* is refused with 403 before the cache or the table is touched
RtRefuse(r) ==
    /\ rts[r].pc = "idle"
    /\ RealtimeReject([auth |-> OtherDevice, device_id |-> DeviceId]) = 403
    /\ rts' = [rts EXCEPT ![r] = [IdleReader EXCEPT !.pc = "respond",
                                                    !.status = 403]]
    /\ UNCHANGED <<store, cache, ing, rt_seen, rt_acked, rt_other>>

\* realtime: the request of the device's own token arrives and runs up to
\* cached = await redis_client.get(cache_key); a request that is followed
\* takes `floor` and `must` when it starts, one request at a time
RtCacheGet(r, follow) ==
    /\ rts[r].pc = "idle"
    /\ \E up \in BOOLEAN :
          LET cached == CacheRead(cache, CacheKey(DeviceId), up)
              started == [IdleReader EXCEPT
                             !.floor = IF follow THEN rt_seen ELSE 0,
                             !.must = IF follow THEN rt_acked ELSE 0]
          IN  /\ follow => \A q \in Readers : rts[q].floor = 0 /\ rts[q].must = 0
              /\ rts' = [rts EXCEPT ![r] =
                           IF cached # NoText
                           THEN [started EXCEPT !.pc = "respond", !.status = 200,
                                                !.body = JsonLoads(cached)]
                           ELSE [started EXCEPT !.pc = "query"]]
    /\ UNCHANGED <<store, cache, ing, rt_seen, rt_acked, rt_other>>

\* realtime: result = await db.execute(stmt); 404 when there is no row
RtQuery(r) ==
    /\ rts[r].pc = "query"
    /\ LET sample == LatestSample(store, DeviceId)
       IN  rts' = [rts EXCEPT ![r] =
                     IF sample = NoSample
                     THEN [@ EXCEPT !.pc = "respond", !.status = 404]
                     ELSE [@ EXCEPT !.pc = "set", !.body = SampleToDict(sample)]]
    /\ UNCHANGED <<store, cache, ing, rt_seen, rt_acked, rt_other>>

\* realtime: await redis_client.set(cache_key, sample_json, ex=cache_ttl)
RtCacheSet(r) ==
    /\ rts[r].pc = "set"
    /\ \/ cache' = CacheSet(cache, CacheKey(DeviceId), JsonDumps(rts[r].body))
       \/ cache' = cache
    /\ rts' = [rts EXCEPT ![r].pc = "respond", ![r].status = 200]
    /\ UNCHANGED <<store, ing, rt_seen, rt_acked, rt_other>>

\* realtime: the response is sent
RtRespond(r) ==
    /\ rts[r].pc = "respond"
    /\ rt_seen' = IF rts[r].status = 200 /\ rts[r].body.ts > rt_seen
                  THEN rts[r].body.ts ELSE rt_seen
    /\ rts' = [rts EXCEPT ![r] = IdleReader]
    /\ UNCHANGED <<store, cache, ing, rt_acked, rt_other>>

\* the entry of the device reaches its TTL
RtExpire ==
    /\ \E e \in cache : e.key = CacheKey(DeviceId) /\ cache' = cache \ {e}
    /\ UNCHANGED <<store, rts, ing, rt_seen, rt_acked, rt_other>>

RealtimeNext ==
    \/ \E samples \in RtBatches : RtIngestCommit(samples)
    \/ RtIngestInvalidate
    \/ RtIngestRespond
    \/ \E r \in Readers : RtRefuse(r)
    \/ \E r \in Readers : RtCacheGet(r, FALSE)
    \/ \E r \in Readers : RtQuery(r)
    \/ \E r \in Readers : RtCacheSet(r)
    \/ \E r \in Readers : RtRespond(r)
    \/ RtExpire

\* the state after the other device was ingested and read once
RealtimeInit ==
    /\ Boot
    /\ batch_size = 1
    /\ max_samples = MaxBatch
    /\ store = SetToBag({Sample(OtherDevice, 1)})
    /\ cache = {[key |-> CacheKey(OtherDevice),
                 value |-> JsonDumps(SampleToDict(Sample(OtherDevice, 1)))]}
    /\ CompIdle

RealtimeSpec == RealtimeInit /\ [][RealtimeNext]_vars

\* the same handlers, with one request at a time followed from its start to
\* its response
ViewNext ==
    \/ \E samples \in RtBatches : RtIngestCommit(samples)
    \/ RtIngestInvalidate
    \/ RtIngestRespond
    \/ \E r \in Readers : RtRefuse(r)
    \/ \E r \in Readers : \E follow \in BOOLEAN : RtCacheGet(r, follow)
    \/ \E r \in Readers : RtQuery(r)
    \/ \E r \in Readers : RtCacheSet(r)
    \/ \E r \in Readers : RtRespond(r)
    \/ RtExpire

ViewSpec == RealtimeInit /\ [][ViewNext]_vars

\* C15: the cache is invalidated exactly when an ingest inserted rows, only
\* after the insert was committed, and for the key of the token's device
\* only; when the delete fails the response is still 200 with the number of
\* inserted rows, and the rows are stored.
C15_InvalidateAfterCommit ==
    /\ [](/\ ing.pc = "invalidate" =>
                /\ ing.inserted > 0
                /\ ing.invalidated = "no"
                /\ ing.added \sqsubseteq store
          /\ ing.pc = "respond" =>
                /\ ing.invalidated # "no" <=> ing.inserted > 0
                /\ ing.status = 200
                /\ ing.inserted = BagCardinality(ing.added)
                /\ ing.added \sqsubseteq store)
    /\ [][/\ ing'.invalidated # ing.invalidated /\ ing'.pc # "idle" =>
                /\ ing.pc = "invalidate"
                /\ \A e \in cache \ cache' : e.key = CacheKey(DeviceId)
                /\ \A e \in cache' \ cache : FALSE
                /\ ing'.invalidated = "deleted" =>
                      CacheGet(cache', CacheKey(DeviceId)) = NoText
                /\ ing'.invalidated = "failed" => cache' = cache
                /\ ing'.inserted = ing.inserted /\ ing'.status = 200
                /\ store' = store
          /\ ing.pc = "idle" /\ ing'.pc # "idle" => cache' = cache
       ]_vars

\* C15 witness: the delete failed after an ingest that inserted a row: the
\* response is 200 with inserted = 1, the row is stored, and the cache
\* still holds the entries of both devices
C15_Witness ==
    /\ ing.pc = "respond" /\ ing.invalidated = "failed"
    /\ ing.status = 200 /\ ing.inserted = 1
    /\ ing.added \sqsubseteq store
    /\ CacheGet(cache, CacheKey(DeviceId)) # NoText
    /\ CacheGet(cache, CacheKey(OtherDevice)) # NoText

\* C16: the view of a device is monotonic: once a realtime response carried
\* ts t, no realtime response to a request that starts later carries an
\* older ts.
C16_MonotonicView ==
    \A r \in Readers :
        (rts[r].pc = "respond" /\ rts[r].status = 200) =>
            rts[r].body.ts >= rts[r].floor

\* C17: read after write: once an ingest that inserted the greatest-ts
\* sample of the device was answered 200, every realtime request that starts
\* afterwards is answered with that sample or with a newer one.
C17_ReadAfterWrite ==
    \A r \in Readers :
        (rts[r].pc = "respond" /\ rts[r].must > 0) =>
            /\ rts[r].status = 200
            /\ rts[r].body.ts >= rts[r].must

(***************************************************************************)
(* GET /v1/series: query_series over the continuous aggregates of          *)
(* migration 002 and over the raw table.  Time is counted in hours; a day, *)
(* a month and a year are each a whole number of the next smaller          *)
(* interval, as in the calendar.  Of the six aggregated columns the model  *)
(* keeps avg_pv_power_w, max_pv_power_w and sample_count: the other four   *)
(* are AVG columns written like avg_pv_power_w in both queries.            *)
(***************************************************************************)
MaxSeriesTs == 9
MaxSeriesRows == 2
MaxSeriesPower == 1
MaxSampleCount == 2

IntervalLength(unit) ==
    CASE unit = "hour" -> 1
      [] unit = "day" -> 2
      [] unit = "month" -> 4
      [] unit = "year" -> 8

\* time_bucket(interval, ts)
TimeBucket(unit, ts) == ts - (ts % IntervalLength(unit))

\* date_trunc(unit, now())
DateTrunc(unit, now) == now - (now % IntervalLength(unit))

FRAME_CONFIG(frame) ==
    CASE frame = "day" -> [source_view |-> "sungrow_hourly",
                           bucket_interval |-> "hour", time_filter |-> "day"]
      [] frame = "month" -> [source_view |-> "sungrow_daily",
                             bucket_interval |-> "day", time_filter |-> "month"]
      [] frame = "year" -> [source_view |-> "sungrow_monthly",
                            bucket_interval |-> "month", time_filter |-> "year"]
      [] frame = "all" -> [source_view |-> "sungrow_monthly",
                           bucket_interval |-> "month", time_filter |-> "none"]

\* upgrade(): the bucket interval each view is created with
ViewInterval(view) ==
    CASE view = "sungrow_hourly" -> "hour"
      [] view = "sungrow_daily" -> "day"
      [] view = "sungrow_monthly" -> "month"

RECURSIVE Gcd(_, _)
Gcd(a, b) == IF b = 0 THEN a ELSE Gcd(b, a % b)

\* an exact quotient, in lowest terms
Fraction(n, d) == LET g == Gcd(n, d) IN <<n \div g, d \div g>>

RECURSIVE SumOver(_, _)
SumOver(rows, column) ==
    IF rows = {} THEN 0
    ELSE LET r == CHOOSE x \in rows : TRUE
         IN  r[column] + SumOver(rows \ {r}, column)

SqlAvg(rows, column) == Fraction(SumOver(rows, column), Cardinality(rows))

SqlMax(rows, column) ==
    CHOOSE v \in {r[column] : r \in rows} : \A r \in rows : r[column] <= v

\* GROUP BY device_id, bucket: the rows of one group
SeriesGroup(rows, unit, device_id, bucket) ==
    {r \in rows : r.device_id = device_id /\ TimeBucket(unit, r.ts) = bucket}

SeriesGroupKeys(rows, unit) ==
    {<<r.device_id, TimeBucket(unit, r.ts)>> : r \in rows}

\* _AGG_COLUMNS of the migration
AggColumns(group) ==
    [avg_pv_power_w |-> SqlAvg(group, "pv_power_w"),
     max_pv_power_w |-> SqlMax(group, "pv_power_w"),
     sample_count |-> SumOver(group, "sample_count")]

\* the SELECT list of _query_raw_fallback
FallbackColumns(group) ==
    [avg_pv_power_w |-> SqlAvg(group, "pv_power_w"),
     max_pv_power_w |-> SqlMax(group, "pv_power_w"),
     sample_count |-> Cardinality(group)]

\* _create_view_sql: the rows of a continuous aggregate over the table
ContinuousAggregate(tbl, view) ==
    {LET group == SeriesGroup(tbl, ViewInterval(view), k[1], k[2])
         agg == AggColumns(group)
     IN  [device_id |-> k[1], bucket |-> k[2],
          avg_pv_power_w |-> agg.avg_pv_power_w,
          max_pv_power_w |-> agg.max_pv_power_w,
          sample_count |-> agg.sample_count]
     : k \in SeriesGroupKeys(tbl, ViewInterval(view))}

\* ORDER BY bucket ASC over rows with distinct buckets
OrderByBucket(rows) ==
    CHOOSE s \in [1..Cardinality(rows) -> rows] :
        /\ \A i, j \in 1..Cardinality(rows) : i < j => s[i].bucket < s[j].bucket

BucketDict(bucket, agg) ==
    [bucket |-> bucket,
     avg_pv_power_w |-> agg.avg_pv_power_w,
     max_pv_power_w |-> agg.max_pv_power_w,
     sample_count |-> agg.sample_count]

\* _query_view
QueryView(tbl, device_id, config, now) ==
    LET hit == {v \in ContinuousAggregate(tbl, config.source_view) :
                   /\ v.device_id = device_id
                   /\ \/ config.time_filter = "none"
                      \/ v.bucket >= DateTrunc(config.time_filter, now)}
    IN  OrderByBucket({BucketDict(v.bucket, v) : v \in hit})

\* _query_raw_fallback
QueryRawFallback(tbl, device_id, config, now) ==
    LET hit == {r \in tbl :
                   /\ r.device_id = device_id
                   /\ \/ config.time_filter = "none"
                      \/ r.ts >= DateTrunc(config.time_filter, now)}
    IN  OrderByBucket(
            {BucketDict(k[2], FallbackColumns(
                 SeriesGroup(hit, config.bucket_interval, k[1], k[2])))
             : k \in SeriesGroupKeys(hit, config.bucket_interval)})

\* query_series: the view answers
SeriesViewAnswers(frame) ==
    /\ series_out' = [frame |-> frame, path |-> "view",
                      rows |-> QueryView(series_tbl, DeviceId,
                                         FRAME_CONFIG(frame), series_now)]
    /\ UNCHANGED <<poller, norm_raw, norm_out, upload_interval_s, fail_run, waited,
                   resp_inserted, health_writer, health_file, health_seen>>
    /\ UNCHANGED <<series_tbl, series_now>>
    /\ UNCHANGED <<spool_vars, super_vars, upl_vars, net, net_status,
                   max_samples, max_request_bytes, store, txns, cache,
                   api_vars, hist_vars>>

\* query_series: the view query raises, the raw table is read instead
SeriesViewFails(frame) ==
    /\ series_out' = [frame |-> frame, path |-> "fallback",
                      rows |-> QueryRawFallback(series_tbl, DeviceId,
                                                FRAME_CONFIG(frame), series_now)]
    /\ UNCHANGED <<poller, norm_raw, norm_out, upload_interval_s, fail_run, waited,
                   resp_inserted, health_writer, health_file, health_seen>>
    /\ UNCHANGED <<series_tbl, series_now>>
    /\ UNCHANGED <<spool_vars, super_vars, upl_vars, net, net_status,
                   max_samples, max_request_bytes, store, txns, cache,
                   api_vars, hist_vars>>

SeriesRows ==
    [device_id : {DeviceId}, ts : 0..MaxSeriesTs,
     pv_power_w : 0..MaxSeriesPower, sample_count : 1..MaxSampleCount]

\* tables of at most n rows of the device, one row per ts
RECURSIVE SeriesTablesUpTo(_)
SeriesTablesUpTo(n) ==
    IF n = 0 THEN {{}}
    ELSE LET smaller == SeriesTablesUpTo(n - 1)
         IN  smaller \cup
             {t \cup {r} : <<t, r>> \in
                 {x \in smaller \X SeriesRows :
                     \A q \in x[1] : q.ts # x[2].ts}}

\* the row another device may have stored
ForeignSeriesRow ==
    [device_id |-> OtherDevice, ts |-> MaxSeriesTs,
     pv_power_w |-> MaxSeriesPower, sample_count |-> MaxSampleCount]

SeriesNext ==
    \/ \E frame \in VALID_FRAMES : SeriesViewAnswers(frame)
    \/ \E frame \in VALID_FRAMES : SeriesViewFails(frame)

SeriesInit ==
    /\ Boot
    /\ batch_size = 1
    /\ max_samples = 1
    /\ store = EmptyBag
    /\ cache = {}
    /\ \E t \in SeriesTablesUpTo(MaxSeriesRows), f \in SUBSET {ForeignSeriesRow} :
          series_tbl = t \cup f
    /\ series_now \in (MaxSeriesTs - 1)..MaxSeriesTs
    /\ series_out = NoSeries
    /\ PollerIdle
    /\ NormalizerIdle
    /\ PacingIdle
    /\ HealthIdle

SeriesSpec == SeriesInit /\ [][SeriesNext]_vars

\* C21: whatever the stored samples and the frame, the rows the raw-table
\* fallback returns are the rows the continuous aggregate returns: the same
\* buckets in ascending order, each with the same AVG, MAX and
\* SUM(sample_count).
C21_FallbackEqualsView ==
    series_out.path = "fallback" =>
        series_out.rows = QueryView(series_tbl, DeviceId,
                                    FRAME_CONFIG(series_out.frame), series_now)

(***************************************************************************)
(* The loops of the edge process (main.py, poller.py, normalizer.py,       *)
(* uploader.py).                                                           *)
(***************************************************************************)

\* C22: once the shutdown flag is set neither loop begins another iteration;
\* the only upload_batch that still begins is the final flush, which begins
\* when both loops have returned; from then on nothing is enqueued and no
\* second upload_batch begins; when the flush ends, with True, with False or
\* with an exception, run_loops returns.
C22_ShutdownProtocol ==
    [][/\ (shutdown /\ run_pc = "gather" /\ run_pc' = "gather") =>
             /\ poll_pc = "head" => poll_pc' \in {"head", "done"}
             /\ up_pc = "head" => up_pc' \in {"head", "done"}
       /\ (run_pc = "gather" /\ run_pc' = "flush") =>
             /\ shutdown
             /\ poll_pc = "done" /\ up_pc = "done"
             /\ up_pc' = "fetch"
       /\ (run_pc \in {"flush", "returned"} /\ run_pc' \in {"flush", "returned"}) =>
             /\ enq_log' = enq_log
             /\ conn'.rows \subseteq conn.rows
             /\ poll_pc' = "done"
             /\ ~(up_pc # "fetch" /\ up_pc' = "fetch")
       /\ (run_pc = "flush" /\ up_result = "none" /\ up_result' # "none") =>
             run_pc' \in {"returned", "down"}]_vars

\* C22 witness: run_loops returned after a final flush that raised, with
\* samples left in the spool
C22_Witness ==
    /\ run_pc = "returned" /\ shutdown
    /\ up_result = "raised"
    /\ conn.rows # {}
    /\ poll_pc = "done" /\ up_pc = "done"

(***************************************************************************)
(* One run of run_loops in which the signal arrives, possibly before       *)
(* either loop has begun an iteration.  Each step inside a poll            *)
(* or upload iteration is taken (the iteration terminates: the POST ends   *)
(* in a response or in an exception), a loop at its head with the flag set *)
(* returns, and a wait ends once the flag is set; a wait need not end by   *)
(* its timeout, and no iteration need begin.                               *)
(***************************************************************************)
ShutdownNext ==
    \/ PollExit
    \/ PollEnqueue
    \/ PollNothing
    \/ PollCommit
    \/ PollHealth
    \/ PollWake
    \/ UploadExit
    \/ UploadBegin
    \/ FlushStart
    \/ UploadFetch
    \/ UploadNetError
    \/ UploadOtherError
    \/ ServerIngest
    \/ GatewayAnswer
    \/ UploadAck
    \/ UploadAckCommit
    \/ UploadRejected
    \/ UploadWake
    \/ SignalShutdown

ShutdownInit ==
    /\ Boot
    /\ max_samples = MaxBatch
    /\ store = EmptyBag
    /\ cache = {}
    /\ CompIdle

ShutdownFairness ==
    /\ WF_vars(SignalShutdown)
    /\ WF_vars(PollCommit) /\ WF_vars(PollHealth)
    /\ WF_vars(UploadFetch) /\ WF_vars(UploadAckCommit)
    /\ WF_vars(UploadNetError \/ UploadOtherError \/ UploadAck \/ UploadRejected)
    /\ WF_vars(shutdown /\ PollWake) /\ WF_vars(shutdown /\ UploadWake)
    /\ WF_vars(PollExit) /\ WF_vars(UploadExit)
    /\ WF_vars(FlushStart)

ShutdownSpec == ShutdownInit /\ [][ShutdownNext]_vars /\ ShutdownFairness

\* the flag is set and neither loop has begun an iteration
FlagSetBeforeLoops ==
    /\ shutdown /\ run_pc = "gather"
    /\ poll_pc = "head" /\ up_pc = "head"
    /\ enq_log = <<>> /\ ~health.polled /\ up_result = "none"

\* no poll iteration and no upload iteration runs: an upload_batch that runs
\* is the final flush
ZeroIterations ==
    /\ enq_log = <<>> /\ ~health.polled
    /\ poll_pc \in {"head", "done"}
    /\ up_pc \in {"fetch", "posting", "commit"} => run_pc = "flush"
    /\ up_pc # "sleep"

\* C23: when the flag is eventually set and every iteration terminates,
\* run_loops eventually returns, also when a loop is waiting out an interval
\* that never elapses; when the flag is set before the loops start, no
\* iteration of either loop runs and the final flush follows.
C23_RunLoopsReturns ==
    /\ <>(run_pc = "returned")
    /\ []((shutdown /\ poll_pc = "sleep") => <>(poll_pc = "done"))
    /\ []((shutdown /\ up_pc = "sleep") => <>(up_pc = "done"))
    /\ [](FlagSetBeforeLoops => [](ZeroIterations))
    /\ [](FlagSetBeforeLoops => <>(run_pc = "flush"))

\* C23 witness: run_loops has returned after the flag was set before any
\* iteration; the final flush found the spool empty
C23_Witness ==
    /\ run_pc = "returned" /\ shutdown
    /\ enq_log = <<>> /\ ~health.polled
    /\ up_result = "false" /\ up_rows = <<>>

(***************************************************************************)
(* The two loops with the failures one iteration can meet.  Spool.enqueue  *)
(* is an INSERT and a commit() on the shared connection with no rollback   *)
(* in between (spool.py 130-131): when the INSERT raises nothing was       *)
(* written; when commit() raises SQLite either has rolled the transaction  *)
(* back or has undone the COMMIT alone and left the transaction open.      *)
(***************************************************************************)
\* _poll_once: a sample was built, the INSERT of enqueue raises
PollInsertFails ==
    /\ run_pc = "gather" /\ poll_pc = "head" /\ ~shutdown
    /\ clock <= MaxEnqueue
    /\ clock' = clock + 1
    /\ poll_pc' = "health"
    /\ UNCHANGED <<spool_vars, run_pc, shutdown, restarts, up_pc, health,
                   upl_vars, srv_vars, hist_vars>>

\* _poll_once: the commit() of enqueue raises; there is a transaction to
\* commit
PollCommitFails(rolled_back) ==
    /\ run_pc = "gather" /\ poll_pc = "commit"
    /\ conn # disk
    /\ IF rolled_back
       THEN conn' = OpenDb(disk) /\ RollBackHistory
       ELSE UNCHANGED <<conn, enq_log, durable, deleted, acked>>
    /\ poll_pc' = "health"
    /\ UNCHANGED <<disk, db_open, run_pc, shutdown, restarts, up_pc, clock, health,
                   upl_vars, srv_vars, ok200, ack_calls, enq_during, peek_hist>>

\* _poll_once: count() or the health file write raises
PollHealthFails ==
    /\ run_pc = "gather" /\ poll_pc = "health"
    /\ poll_pc' = "sleep"
    /\ UNCHANGED <<spool_vars, run_pc, shutdown, restarts, up_pc, clock, health,
                   upl_vars, srv_vars, hist_vars>>

IsolationNext ==
    \/ PollEnqueue
    \/ PollNothing
    \/ PollInsertFails
    \/ PollCommit
    \/ \E rolled_back \in BOOLEAN : PollCommitFails(rolled_back)
    \/ PollHealth
    \/ PollHealthFails
    \/ PollWake
    \/ UploadBegin
    \/ UploadFetch
    \/ UploadNetError
    \/ UploadOtherError
    \/ ServerIngest
    \/ GatewayAnswer
    \/ UploadAck
    \/ UploadAckCommit
    \/ UploadRejected
    \/ UploadWake

IsolationSpec == ShutdownInit /\ [][IsolationNext]_vars

\* a step in which a poll iteration meets an error
PollFailureStep ==
    \/ PollNothing
    \/ PollInsertFails
    \/ \E rolled_back \in BOOLEAN : PollCommitFails(rolled_back)
    \/ PollHealthFails

\* C24: an error inside a poll iteration or an upload iteration is caught:
\* the failing loop goes on to the rest of its iteration and its wait, the
\* other loop stays where it is and run_loops keeps running; when enqueue
\* fails, at the INSERT or at the commit, the connection does not hold the
\* sample afterwards.
C24_LoopIsolation ==
    [][/\ PollFailureStep =>
             /\ poll_pc' \in {"health", "sleep"}
             /\ up_pc' = up_pc /\ run_pc' = "gather"
       /\ UploadOtherError =>
             /\ up_pc' = "sleep"
             /\ poll_pc' = poll_pc /\ run_pc' = "gather"
       /\ PollInsertFails => conn'.rows = conn.rows
       /\ (\E rolled_back \in BOOLEAN : PollCommitFails(rolled_back)) =>
             \A r \in conn'.rows : r.rowid # conn.seq]_vars

(***************************************************************************)
(* The register catalog (registers.py).  A scale is a fraction            *)
(* <<numerator, denominator>>; a valid_range is in whole units.            *)
(***************************************************************************)
\* scale=1 and scale=0.1
One == <<1, 1>>
Tenth == <<1, 10>>

DefaultWordCount(reg_type) ==
    CASE reg_type \in {"U16", "S16"} -> 1
      [] reg_type \in {"U32", "S32"} -> 2

RegisterDef(address, name, reg_type, scale, lo, hi) ==
    [address |-> address, name |-> name, reg_type |-> reg_type,
     scale |-> scale, valid_range |-> <<lo, hi>>,
     word_count |-> DefaultWordCount(reg_type)]

DEVICE_GROUP ==
    [group_name |-> "device", start_address |-> 4990, count |-> 11,
     registers |-> <<
        [address |-> 4990, name |-> "serial_number", reg_type |-> "UTF8",
         scale |-> One, valid_range |-> <<>>, word_count |-> 10],
        RegisterDef(5000, "device_type_code", "U16", One, 0, 65535)>>]

PV_GROUP ==
    [group_name |-> "pv", start_address |-> 5004, count |-> 15,
     registers |-> <<
        RegisterDef(5004, "total_dc_power", "U32", One, 0, 20000),
        RegisterDef(5011, "daily_pv_generation", "U16", Tenth, 0, 100),
        RegisterDef(5012, "mppt1_voltage", "U16", Tenth, 0, 600),
        RegisterDef(5013, "mppt1_current", "U16", Tenth, 0, 20),
        RegisterDef(5014, "mppt2_voltage", "U16", Tenth, 0, 600),
        RegisterDef(5015, "mppt2_current", "U16", Tenth, 0, 20),
        RegisterDef(5017, "total_pv_generation", "U32", Tenth, 0, 1000000)>>]

EXPORT_GROUP ==
    [group_name |-> "export", start_address |-> 5083, count |-> 2,
     registers |-> <<
        RegisterDef(5083, "export_power", "S32", One, 0 - 20000, 20000)>>]

LOAD_GROUP ==
    [group_name |-> "load", start_address |-> 13008, count |-> 10,
     registers |-> <<
        RegisterDef(13008, "load_power", "S32", One, 0 - 20000, 50000),
        RegisterDef(13010, "grid_power", "S16", One, 0 - 20000, 20000),
        RegisterDef(13017, "daily_direct_consumption", "U16", Tenth, 0, 200)>>]

BATTERY_GROUP ==
    [group_name |-> "battery", start_address |-> 13022, count |-> 6,
     registers |-> <<
        RegisterDef(13022, "battery_power", "S16", One, 0 - 10000, 10000),
        RegisterDef(13023, "battery_soc", "U16", Tenth, 0, 100),
        RegisterDef(13024, "battery_temperature", "U16", Tenth, 0 - 20, 60),
        RegisterDef(13026, "daily_battery_discharge", "U16", Tenth, 0, 100),
        RegisterDef(13027, "daily_battery_charge", "U16", Tenth, 0, 100)>>]

ALL_GROUPS == <<DEVICE_GROUP, PV_GROUP, EXPORT_GROUP, LOAD_GROUP, BATTERY_GROUP>>

GroupRegisters(group) == {group.registers[i] : i \in DOMAIN group.registers}

\* ALL_REGISTERS: every register of every group, looked up by name
RegisterSet == UNION {GroupRegisters(ALL_GROUPS[i]) : i \in DOMAIN ALL_GROUPS}

ALL_REGISTERS(name) == CHOOSE reg \in RegisterSet : reg.name = name

(***************************************************************************)
(* Poller (poller.py): the backoff sleep, then _do_poll: connect and one   *)
(* read per group.  A word the device returns stands for the address it    *)
(* was read from.                                                          *)
(***************************************************************************)
BASE_BACKOFF_S == 1
MAX_BACKOFF_S == 60
MaxPollFailures == 8
MaxOutage == 1025

\* sys.float_info.max_exp of the interpreter: an int of 2^1024 or more does
\* not convert to a float
FLOAT_MAX_EXP == 1024

RECURSIVE Pow2(_)
Pow2(n) == IF n = 0 THEN 1 ELSE 2 * Pow2(n - 1)

\* a backoff that never stops doubling
PollerDelayUncapped(n) ==
    IF n > 0 THEN BASE_BACKOFF_S * Pow2(n - 1) ELSE 0

\* Poller.poll: the sleep before the attempt, 0 for none.  From 2^6 on the
\* minimum is MAX_BACKOFF_S whatever the power, which is taken no higher
\* than 2^30 to stay within the integers of the model.
PollerDelay(n) ==
    IF n > 0 THEN Min(BASE_BACKOFF_S * Pow2(Min(n - 1, 30)), MAX_BACKOFF_S) ELSE 0

\* Poller.poll: BASE_BACKOFF_S * (2 ** (n - 1)) multiplies a float by an int,
\* which converts the int to a float first and raises OverflowError when it
\* does not fit
DelayOverflows(n) == n > 0 /\ n - 1 >= FLOAT_MAX_EXP

\* a poller for which every group is optional
AnyGroupOptional(group) == TRUE

\* _do_poll: the group whose error response is skipped
IsOptionalGroup(group) == group.group_name = "export"

\* response.registers of a read of the group that succeeded
ResponseWords(group) == [i \in 1..group.count |-> group.start_address + i - 1]

\* _extract_register_values
ExtractRegisterValues(group, raw_words, out) ==
    [name \in DOMAIN out \cup {reg.name : reg \in GroupRegisters(group)} |->
        IF \E reg \in GroupRegisters(group) : reg.name = name
        THEN LET reg == CHOOSE g \in GroupRegisters(group) : g.name = name
                 offset == reg.address - group.start_address
             IN  SubSeq(raw_words, offset + 1, offset + reg.word_count)
        ELSE out[name]]

\* a poll that leaves its client as it is
PollerFinishNoClose(p, result) ==
    [p EXCEPT !.pc = "idle",
              !.result = result,
              !.consecutive_failures = IF result = "map" THEN 0 ELSE @ + 1]

\* Poller.poll, after _do_poll: client.close() in the finally clause, then
\* the counter
PollerFinish(p, result) ==
    [p EXCEPT !.pc = "idle",
              !.result = result,
              !.client = "closed",
              !.closes = @ + 1,
              !.consecutive_failures = IF result = "map" THEN 0 ELSE @ + 1]

poller_other == <<spool_vars, super_vars, upl_vars, net, net_status,
                  max_samples, max_request_bytes, store, txns, cache,
                  api_vars, hist_vars, series_tbl, series_now, series_out,
                  norm_raw, norm_out, upload_interval_s, fail_run, waited,
                  resp_inserted, health_writer, health_file, health_seen>>

\* Poller.poll is called, after at most limit failed polls in a row: the
\* delay is computed and slept, then the client of the cycle is created;
\* an exception of the computation leaves poll before both
PollerCall(limit) ==
    /\ poller.pc = "idle"
    /\ poller.consecutive_failures <= limit
    /\ LET fresh == [poller EXCEPT !.read = <<>>,
                                   !.errors = {},
                                   !.raw = EmptyRaw,
                                   !.client = "none",
                                   !.closes = 0]
       IN  poller' = IF DelayOverflows(poller.consecutive_failures)
                     THEN [fresh EXCEPT !.result = "raised"]
                     ELSE [fresh EXCEPT
                              !.pc = "connect",
                              !.delay = PollerDelay(poller.consecutive_failures),
                              !.client = "created",
                              !.result = "none"]
    /\ UNCHANGED poller_other

PollerBegin == PollerCall(MaxPollFailures)

\* _do_poll: client.connect() returns True, returns False or raises
PollerConnect(outcome) ==
    /\ poller.pc = "connect"
    /\ poller' = IF outcome = "ok"
                 THEN [poller EXCEPT !.pc = "read", !.client = "connected"]
                 ELSE PollerFinish([poller EXCEPT
                          !.errors = {[group |-> "connect", kind |-> outcome]}],
                          "bottom")
    /\ UNCHANGED poller_other

\* _do_poll: the read of the next group answers with registers, answers with
\* an error response, or raises
PollerRead(outcome) ==
    /\ poller.pc = "read"
    /\ LET group == ALL_GROUPS[Len(poller.read) + 1]
           last == Len(poller.read) + 1 = Len(ALL_GROUPS)
           seen == [poller EXCEPT !.read = Append(@, group.group_name)]
           failed == [seen EXCEPT !.errors = @ \cup {[group |-> group.group_name,
                                                      kind |-> outcome]},
                                  !.raw = IF outcome = "error" /\ IsOptionalGroup(group)
                                          THEN @ ELSE EmptyRaw]
           taken == [seen EXCEPT !.raw = ExtractRegisterValues(
                                            group, ResponseWords(group), @)]
       IN  poller' =
             CASE outcome = "registers" ->
                    IF last THEN PollerFinish(taken, "map") ELSE taken
               [] outcome = "error" /\ IsOptionalGroup(group) ->
                    IF last THEN PollerFinish(failed, "map") ELSE failed
               [] OTHER -> PollerFinish(failed, "bottom")
    /\ UNCHANGED poller_other

PollerNext ==
    \/ PollerBegin
    \/ \E outcome \in {"ok", "false", "raises"} : PollerConnect(outcome)
    \/ \E outcome \in {"registers", "error", "raises"} : PollerRead(outcome)

PollerInit ==
    /\ Boot
    /\ batch_size = 1
    /\ max_samples = 1
    /\ store = EmptyBag
    /\ cache = {}
    /\ CompIdle

PollerSpec == PollerInit /\ [][PollerNext]_vars

\* C25: the sleep before an attempt that follows n failed polls in a row is
\* min(1 * 2^(n-1), 60) seconds for n > 0 and none for n = 0; a failed poll
\* adds exactly 1 to the counter, a successful one sets it to 0, and nothing
\* else changes it: a failure run sleeps 1, 2, 4, 8, 16, 32, 60, 60, ...
C25_PollerBackoff ==
    /\ [][LET n == poller.consecutive_failures
              m == poller'.consecutive_failures
          IN  /\ (poller.pc = "idle" /\ poller'.pc = "connect") =>
                    /\ m = n
                    /\ poller'.delay = IF n = 0 THEN 0
                                       ELSE IF Pow2(n - 1) < 60 THEN Pow2(n - 1)
                                       ELSE 60
              /\ (poller.pc # "idle" /\ poller'.pc = "idle") =>
                    \/ poller'.result = "bottom" /\ m = n + 1
                    \/ poller'.result = "map" /\ m = 0
              /\ (poller.pc # "idle" /\ poller'.pc # "idle") => m = n]_vars
    /\ [](poller.pc # "idle" =>
             /\ poller.delay \in {0, 1, 2, 4, 8, 16, 32, 60}
             /\ poller.delay = 0 <=> poller.consecutive_failures = 0)

\* C25 witness: an attempt after eight failed polls in a row slept 60 s
C25_Witness ==
    /\ poller.pc = "connect"
    /\ poller.consecutive_failures = 8
    /\ poller.delay = 60

GroupNames == [i \in DOMAIN ALL_GROUPS |-> ALL_GROUPS[i].group_name]

ExportSkipped == [group |-> "export", kind |-> "error"]

\* C26: the groups are read in catalog order; an error response for a group
\* other than export, like an exception, ends the cycle in that step with
\* bottom, that group being the last one read; an error response for export
\* is skipped, and the cycle that reads all the other groups returns a map
\* whose keys are the registers of those groups, each with its word_count
\* words, and without export_power.
C26_PollFailurePolicy ==
    /\ IsPrefix(poller.read, GroupNames)
    /\ \A e \in poller.errors :
          e # ExportSkipped =>
             /\ poller.pc = "idle" /\ poller.result = "bottom"
             /\ e.group # "connect" => poller.read[Len(poller.read)] = e.group
    /\ (poller.pc = "idle" /\ poller.errors \subseteq {ExportSkipped}
           /\ poller.read = GroupNames) => poller.result = "map"
    /\ poller.result = "map" =>
          /\ poller.read = GroupNames
          /\ poller.errors \subseteq {ExportSkipped}
          /\ DOMAIN poller.raw =
                {reg.name : reg \in RegisterSet} \
                   (IF ExportSkipped \in poller.errors
                    THEN {"export_power"} ELSE {})
          /\ \A name \in DOMAIN poller.raw :
                Len(poller.raw[name]) = ALL_REGISTERS(name).word_count

\* C26 witness: a cycle whose export read was answered with an error
\* returned the map of the other four groups
C26_Witness ==
    /\ poller.result = "map"
    /\ ExportSkipped \in poller.errors
    /\ "battery_soc" \in DOMAIN poller.raw
    /\ "export_power" \notin DOMAIN poller.raw

(***************************************************************************)
(* The pacing of the upload loop (main.py _upload_loop, uploader.py): an   *)
(* uploader is built and the loop started with the settings, then each     *)
(* iteration is one upload_batch followed by the wait of the loop.         *)
(***************************************************************************)
DEFAULT_MAX_BACKOFF_S == 300
MaxCapChoice == 4
MaxIntervalChoice == 2
MaxFailRun == 10

BackoffCaps == 1..MaxCapChoice \cup {DEFAULT_MAX_BACKOFF_S}

UploadIntervals == 1..MaxIntervalChoice \cup {DEFAULT_UPLOAD_INTERVAL_S}

pacing_other == <<spool_vars, super_vars, batch_size, peek_n, peek_snap, up_rows,
                  net, net_status, max_samples, max_request_bytes, store, txns,
                  cache, api_vars, hist_vars, series_tbl, series_now, series_out,
                  poller, norm_raw, norm_out, resp_inserted,
                  health_writer, health_file, health_seen>>

\* _upload_loop: wait_for(shutdown_event.wait(), timeout=upload_interval_s)
\* with the flag not set: the seconds waited
LoopWait(interval, backoff) == interval

\* Uploader.__init__ and the start of _upload_loop
LoopStart(cap, interval) ==
    /\ max_backoff_s' = cap
    /\ current_backoff' = INITIAL_BACKOFF_S
    /\ upload_interval_s' = interval
    /\ fail_run' = 0
    /\ waited' = 0
    /\ up_status' = 0
    /\ up_error' = "none"
    /\ up_result' = "none"
    /\ UNCHANGED pacing_other

\* one iteration: upload_batch ends on a connect error or a timeout
\* ("network") or on a response that is not 200 ("status"); the loop waits
LoopUploadFails(kind) ==
    /\ fail_run < MaxFailRun
    /\ current_backoff' = IncreaseBackoff(current_backoff, max_backoff_s)
    /\ up_error' = IF kind = "network" THEN "network" ELSE "none"
    /\ up_status' = IF kind = "status" THEN 502 ELSE 0
    /\ up_result' = "false"
    /\ fail_run' = fail_run + 1
    /\ waited' = LoopWait(upload_interval_s, current_backoff')
    /\ UNCHANGED <<max_backoff_s, upload_interval_s>>
    /\ UNCHANGED pacing_other

\* one iteration: upload_batch is answered 200 and acks; the loop waits
LoopUploadSucceeds ==
    /\ current_backoff' = ResetBackoff
    /\ up_error' = "none"
    /\ up_status' = 200
    /\ up_result' = "true"
    /\ fail_run' = 0
    /\ waited' = LoopWait(upload_interval_s, current_backoff')
    /\ UNCHANGED <<max_backoff_s, upload_interval_s>>
    /\ UNCHANGED pacing_other

PacingNext ==
    \/ \E cap \in BackoffCaps, interval \in UploadIntervals : LoopStart(cap, interval)
    \/ \E kind \in {"network", "status"} : LoopUploadFails(kind)
    \/ LoopUploadSucceeds

PacingSpec == PollerInit /\ [][PacingNext]_vars

\* C27: current_backoff is 1 s for a new uploader and after every successful
\* upload, and min(2 * current_backoff, max_backoff_s) after every failed
\* one; after k failures in a row it is min(2^k, max_backoff_s), 8 s after
\* three when the cap allows; it is always within [1, max_backoff_s].
C27_UploaderBackoff ==
    /\ [][/\ up_result' = "none" => current_backoff' = 1
          /\ up_result' = "true" => current_backoff' = 1
          /\ up_result' = "false" =>
                current_backoff' = IF 2 * current_backoff < max_backoff_s
                                   THEN 2 * current_backoff ELSE max_backoff_s]_vars
    /\ [](/\ 1 <= current_backoff /\ current_backoff <= max_backoff_s
          /\ current_backoff = IF Pow2(fail_run) < max_backoff_s
                               THEN Pow2(fail_run) ELSE max_backoff_s
          /\ (fail_run = 3 /\ max_backoff_s >= 8) => current_backoff = 8)

\* C27 witness: three failed uploads in a row under the default cap
C27_Witness ==
    /\ fail_run = 3 /\ up_result = "false"
    /\ max_backoff_s = 300
    /\ current_backoff = 8

\* C28: after k >= 1 failed uploads in a row the loop waits at least
\* min(1 * 2^(k-1), max_backoff_s) seconds before the next upload_batch.
C28_WaitHonoursBackoff ==
    (fail_run >= 1 /\ up_result = "false") =>
        waited >= Min(Pow2(fail_run - 1), max_backoff_s)

\* the batches the first peek of a process can return
FirstBatches ==
    {[i \in 1..n |-> [rowid |-> i, payload |-> ModelDumpJson(Sample(DeviceId, i))]]
       : n \in 1..MaxBatch}

\* C29: once the server has answered an upload of some spool rows with 413 or
\* 403, no later POST of the edge carries the same rows.
C29_PolicyNeverRetried ==
    \A rows \in FirstBatches :
        []((up_status \in {403, 413} /\ up_rows = rows) =>
               [](~(net = "request" /\ up_rows = rows)))

(***************************************************************************)
(* normalize (normalizer.py).  A scaled value is the fraction              *)
(* <<raw_int * numerator, denominator>> of the register's scale.  The      *)
(* integers of the model end at 2^31 - 1: a signed 32-bit value is         *)
(* assembled from its signed high word, and the words offered for a U32    *)
(* register stay below 0x8000.                                             *)
(***************************************************************************)
MaxNormFaults == 2

FIELD_MAP ==
    <<<<"pv_power_w", "total_dc_power">>,
      <<"pv_daily_kwh", "daily_pv_generation">>,
      <<"battery_power_w", "battery_power">>,
      <<"battery_soc_pct", "battery_soc">>,
      <<"battery_temp_c", "battery_temperature">>,
      <<"load_power_w", "load_power">>,
      <<"export_power_w", "export_power">>>>

ConvertU16(raw) == raw % 65536

ConvertS16(raw) ==
    LET val == raw % 65536
    IN  IF val >= 32768 THEN val - 65536 ELSE val

ConvertU32(hi, lo) == (hi % 65536) * 65536 + (lo % 65536)

\* ((hi << 16) | lo), less 2^32 when the sign bit is set
ConvertS32(hi, lo) == ConvertS16(hi) * 65536 + (lo % 65536)

NoValue == <<>>

Scaled(raw_int, scale) == <<raw_int * scale[1], scale[2]>>

\* a range check that lets every value pass
AlwaysInRange(v, range) == TRUE

\* lo <= scaled <= hi
InValidRange(v, range) ==
    range[1] * v[2] <= v[1] /\ v[1] <= range[2] * v[2]

\* _extract_value
ExtractValue(reg_def, raw) ==
    IF reg_def.name \notin DOMAIN raw THEN NoValue
    ELSE LET words == raw[reg_def.name]
             reg_type == reg_def.reg_type
             wide == reg_type \in {"U32", "S32"}
         IN  IF reg_type \notin {"U16", "S16", "U32", "S32"} THEN NoValue
             ELSE IF Len(words) < (IF wide THEN 2 ELSE 1) THEN NoValue
             ELSE LET raw_int == CASE reg_type = "U32" -> ConvertU32(words[1], words[2])
                                   [] reg_type = "S32" -> ConvertS32(words[1], words[2])
                                   [] reg_type = "U16" -> ConvertU16(words[1])
                                   [] reg_type = "S16" -> ConvertS16(words[1])
                      scaled == Scaled(raw_int, reg_def.scale)
                  IN  IF reg_def.valid_range = <<>> THEN scaled
                      ELSE IF InValidRange(scaled, reg_def.valid_range) THEN scaled
                      ELSE IF reg_type = "S32" /\ Len(words) >= 2
                              /\ words[1] \in {0, 65535}
                              /\ InValidRange(Scaled(ConvertS16(words[2]), reg_def.scale),
                                              reg_def.valid_range)
                           THEN Scaled(ConvertS16(words[2]), reg_def.scale)
                      ELSE NoValue

Negate(v) == <<0 - v[1], v[2]>>

\* normalize: the value of one field, with the grid_power fallback for a
\* missing export_power
FieldValue(field_name, reg_name, raw) ==
    IF /\ field_name = "export_power_w" /\ reg_name \notin DOMAIN raw
       /\ ExtractValue(ALL_REGISTERS("grid_power"), raw) # NoValue
    THEN Negate(ExtractValue(ALL_REGISTERS("grid_power"), raw))
    ELSE ExtractValue(ALL_REGISTERS(reg_name), raw)

Bottom == [result |-> "bottom", fields |-> <<>>]

FieldNames == {FIELD_MAP[i][1] : i \in DOMAIN FIELD_MAP}

RegisterOf(field_name) ==
    LET i == CHOOSE j \in DOMAIN FIELD_MAP : FIELD_MAP[j][1] = field_name
    IN  FIELD_MAP[i][2]

\* normalize: the fields of the SungrowSample, or None
Normalize(raw) ==
    LET fields == [f \in FieldNames |-> FieldValue(f, RegisterOf(f), raw)]
    IN  IF \E f \in FieldNames : fields[f] = NoValue THEN Bottom
        ELSE [result |-> "sample", fields |-> fields]

\* words a register may hold
NormWords == {0, 1000, 1001, 32767, 62000, 65535}

NormRegisters == {RegisterOf(f) : f \in FieldNames} \cup {"grid_power"}

\* what the raw map may hold for a register: a word list of its length, or
\* one that is a word short
WordLists(reg_name) ==
    LET reg == ALL_REGISTERS(reg_name)
        words == IF reg.reg_type = "U32" THEN {w \in NormWords : w < 32768}
                 ELSE NormWords
    IN  [1..reg.word_count -> words] \cup [1..(reg.word_count - 1) -> {0}]

\* a raw map whose every register is in range
GoodRaw == [name \in NormRegisters |-> [i \in 1..ALL_REGISTERS(name).word_count |-> 0]]

Without(raw, name) == [n \in DOMAIN raw \ {name} |-> raw[n]]

\* the raw maps that differ from raw in the registers of names alone: each
\* of them missing, a word short, or holding other words
RECURSIVE RawsWithFaults(_, _)
RawsWithFaults(raw, names) ==
    IF names = {} THEN {raw}
    ELSE LET name == CHOOSE n \in names : TRUE
             here == {Without(raw, name)}
                     \cup {[raw EXCEPT ![name] = words] : words \in WordLists(name)}
         IN  UNION {RawsWithFaults(r, names \ {name}) : r \in here}

\* the registers a raw map may have wrong together
FaultSets == {names \in SUBSET NormRegisters : Cardinality(names) <= MaxNormFaults}

norm_other == <<spool_vars, super_vars, upl_vars, net, net_status,
                max_samples, max_request_bytes, store, txns, cache,
                api_vars, hist_vars, series_tbl, series_now, series_out,
                poller, upload_interval_s, fail_run, waited, resp_inserted,
                health_writer, health_file, health_seen>>

\* _poll_once: normalize(raw, device_id, ts)
NormalizeCall ==
    /\ norm_out = NotNormalized
    /\ norm_out' = Normalize(norm_raw)
    /\ UNCHANGED norm_raw
    /\ UNCHANGED norm_other

\* the next raw map arrives
NormalizeForget ==
    /\ norm_out # NotNormalized
    /\ norm_out' = NotNormalized
    /\ UNCHANGED norm_raw
    /\ UNCHANGED norm_other

NormNext ==
    \/ NormalizeCall
    \/ NormalizeForget

NormInit ==
    /\ Boot
    /\ batch_size = 1
    /\ max_samples = 1
    /\ store = EmptyBag
    /\ cache = {}
    /\ SeriesIdle
    /\ PollerIdle
    /\ PacingIdle
    /\ HealthIdle
    /\ \E names \in FaultSets : norm_raw \in RawsWithFaults(GoodRaw, names)
    /\ norm_out = NotNormalized

NormSpec == NormInit /\ [][NormNext]_vars

\* the register is in the raw map with all its words
Present(reg_name, raw) ==
    /\ reg_name \in DOMAIN raw
    /\ Len(raw[reg_name]) >= ALL_REGISTERS(reg_name).word_count

\* the integer the words of the register stand for
RawInt(reg_name, raw) ==
    LET words == raw[reg_name]
        reg_type == ALL_REGISTERS(reg_name).reg_type
    IN  CASE reg_type = "U32" -> ConvertU32(words[1], words[2])
          [] reg_type = "S32" -> ConvertS32(words[1], words[2])
          [] reg_type = "U16" -> ConvertU16(words[1])
          [] reg_type = "S16" -> ConvertS16(words[1])

\* raw_int times the scale of the register lies in its valid_range
ScalesIntoRange(reg_name, raw_int) ==
    LET reg == ALL_REGISTERS(reg_name)
    IN  /\ reg.valid_range[1] * reg.scale[2] <= raw_int * reg.scale[1]
        /\ raw_int * reg.scale[1] <= reg.valid_range[2] * reg.scale[2]

\* the S32 register carries an S16 value in its low word
LowWordVariant(reg_name, raw) ==
    /\ ALL_REGISTERS(reg_name).reg_type = "S32"
    /\ raw[reg_name][1] \in {0, 65535}
    /\ ScalesIntoRange(reg_name, ConvertS16(raw[reg_name][2]))

\* the register is present and its value, or its low word for the S32
\* variant, scales into the valid_range
Acceptable(reg_name, raw) ==
    /\ Present(reg_name, raw)
    /\ \/ ScalesIntoRange(reg_name, RawInt(reg_name, raw))
       \/ LowWordVariant(reg_name, raw)

\* every field of the sample lies in the valid_range of its register
FieldsInRange(sample) ==
    \A f \in FieldNames :
        LET reg == ALL_REGISTERS(RegisterOf(f))
        IN  /\ reg.valid_range[1] * sample[f][2] <= sample[f][1]
            /\ sample[f][1] <= reg.valid_range[2] * sample[f][2]

\* C30 as stated: normalize returns bottom whenever a mapped register is
\* missing or out of range (the S32 low-word variant excepted), and every
\* sample it returns has every field in the valid_range of its register.
C30_BottomOnAnyMissingOrOutOfRange ==
    norm_out.result # "none" =>
        /\ (\E f \in FieldNames : ~Acceptable(RegisterOf(f), norm_raw)) =>
               norm_out = Bottom
        /\ norm_out # Bottom => FieldsInRange(norm_out.fields)

\* the export register is absent and grid_power stands in for it
GridStandsIn(raw) ==
    /\ "export_power" \notin DOMAIN raw
    /\ Acceptable("grid_power", raw)

\* C30 amended: normalize returns bottom exactly when a mapped register is
\* missing or out of range (the S32 low-word variant excepted), unless the
\* register is export_power, it is absent from the raw map and grid_power is
\* present and in range: then export_power_w is minus grid_power.  Every
\* sample returned has every field in the valid_range of its register,
\* battery_soc_pct in [0, 100].
C30_BottomUnlessGridStandsIn ==
    norm_out.result # "none" =>
        /\ norm_out = Bottom <=>
              \E f \in FieldNames :
                 /\ ~Acceptable(RegisterOf(f), norm_raw)
                 /\ ~(f = "export_power_w" /\ GridStandsIn(norm_raw))
        /\ norm_out # Bottom =>
              /\ FieldsInRange(norm_out.fields)
              /\ 0 <= norm_out.fields["battery_soc_pct"][1]
              /\ norm_out.fields["battery_soc_pct"][1] <=
                    100 * norm_out.fields["battery_soc_pct"][2]
              /\ GridStandsIn(norm_raw) =>
                    norm_out.fields["export_power_w"][1] =
                       0 - ConvertS16(norm_raw["grid_power"][1])

\* C30 witness: a sample was returned for a raw map without export_power
\* whose load_power came in the low word of the S32 register
C30_Witness ==
    /\ norm_out.result = "sample"
    /\ "export_power" \notin DOMAIN norm_raw
    /\ norm_raw["load_power"] = <<0, 62000>>
    /\ norm_out.fields["load_power_w"] = <<0 - 3536, 1>>


(***************************************************************************)
(* A long outage of the inverter: the poll loop keeps calling Poller.poll  *)
(* (main.py _poll_loop) while every attempt may fail.                      *)
(***************************************************************************)
OutageNext ==
    \/ PollerCall(MaxOutage)
    \/ \E outcome \in {"ok", "false", "raises"} : PollerConnect(outcome)
    \/ \E outcome \in {"registers", "error", "raises"} : PollerRead(outcome)

OutageSpec == PollerInit /\ [][OutageNext]_vars

\* C31: Poller.poll never propagates an exception: whatever the number n of
\* failed polls before it and whatever the transport does, a call goes on to
\* its attempt and ends with a map and the counter at 0, or with bottom and
\* the counter at n + 1.
C31_PollNeverRaises ==
    [][LET n == poller.consecutive_failures
           m == poller'.consecutive_failures
       IN  /\ (poller.pc = "idle" /\ poller' # poller) =>
                 poller'.pc = "connect" /\ poller'.result = "none"
           /\ (poller.pc # "idle" /\ poller'.pc = "idle") =>
                 \/ poller'.result = "map" /\ m = 0
                 \/ poller'.result = "bottom" /\ m = n + 1]_vars

\* C32: the client of a poll cycle is closed exactly once on every way out:
\* while the cycle runs its client has not been closed, and once poll has
\* returned a map or bottom the client is closed, by one call of close().
C32_SessionClosedOnce ==
    /\ poller.closes <= 1
    /\ poller.pc # "idle" =>
          poller.closes = 0 /\ poller.client \in {"created", "connected"}
    /\ poller.pc = "idle" => poller.client \in {"none", "closed"}
    /\ (poller.pc = "idle" /\ poller.result \in {"map", "bottom"}) =>
          poller.closes = 1 /\ poller.client = "closed"

\* C32 witness: a read that raised in the middle of a cycle ended it with
\* the client closed
C32_Witness ==
    /\ poller.pc = "idle"
    /\ poller.result = "bottom"
    /\ [group |-> "load", kind |-> "raises"] \in poller.errors
    /\ poller.client = "closed"
    /\ poller.closes = 1

(***************************************************************************)
(* Properties of upload_batch and of the order of the spool, checked under *)
(* Spec.                                                                   *)
(***************************************************************************)
\* C33: upload_batch treats every 2xx status as success: once it has
\* returned on a response whose status is in 200..299 it has acked the
\* peeked rowids, reset the backoff and returned True.
C33_Any2xxIsSuccess ==
    (up_status \in 200..299 /\ up_result # "none") =>
        /\ up_result = "true"
        /\ ack_calls = <<RowidsOf(up_rows)>>
        /\ current_backoff = INITIAL_BACKOFF_S

\* C34: a batch delivered again is acknowledged like a new one: when the
\* server answered 200 with inserted smaller than the number of samples sent,
\* upload_batch has acked all the peeked rowids and returned True, and none
\* of these rows is left in the spool.
C34_RedeliveryIsAcked ==
    (up_status = 200 /\ up_result # "none" /\ resp_inserted < Len(up_rows)) =>
        /\ up_result = "true"
        /\ ack_calls = <<RowidsOf(up_rows)>>
        /\ Range(RowidsOf(up_rows)) \cap Rowids(conn) = {}
        /\ Range(RowidsOf(up_rows)) \cap Rowids(disk) = {}

\* C34 witness: a batch of two rows, one of them stored by the server
\* before, was answered 200 with inserted 1 and acked whole
C34_Witness ==
    /\ up_status = 200
    /\ up_result = "true"
    /\ Len(up_rows) = 2
    /\ resp_inserted = 1
    /\ ack_calls = <<RowidsOf(up_rows)>>

(***************************************************************************)
(* The health file (health.py).  Every mutating method sets its field and  *)
(* calls _write, whose Path.write_text opens the file for writing, which   *)
(* truncates it, and then writes the text and closes it.  Another process  *)
(* (the container's health check) reads the file whenever it likes.        *)
(***************************************************************************)
MaxHealthTs == 2
MaxHealthCount == 2

\* json.dumps(data) of _write
HealthData(w) == <<w.last_poll_ts, w.last_upload_ts, w.spool_count>>

health_other == <<spool_vars, super_vars, upl_vars, net, net_status,
                  max_samples, max_request_bytes, store, txns, cache,
                  api_vars, hist_vars, series_tbl, series_now, series_out,
                  poller, norm_raw, norm_out, upload_interval_s, fail_run,
                  waited, resp_inserted>>

\* _write: open(path, "w") of write_text leaves the file empty
WriteOpen(w) ==
    /\ health_writer' = [w EXCEPT !.pc = "opened"]
    /\ health_file' = FileContent("empty", NoData)
    /\ UNCHANGED health_seen
    /\ UNCHANGED health_other

\* record_poll at instant now
RecordPoll(now) ==
    /\ health_writer.pc = "idle"
    /\ WriteOpen([health_writer EXCEPT !.last_poll_ts = now])

\* record_upload at instant now
RecordUpload(now) ==
    /\ health_writer.pc = "idle"
    /\ WriteOpen([health_writer EXCEPT !.last_upload_ts = now])

\* set_spool_count(count)
SetSpoolCount(count) ==
    /\ health_writer.pc = "idle"
    /\ WriteOpen([health_writer EXCEPT !.spool_count = count])

\* _write: write_text writes the text and closes the file
WriteText ==
    /\ health_writer.pc = "opened"
    /\ health_writer' = [health_writer EXCEPT !.pc = "idle"]
    /\ health_file' = FileContent("complete", HealthData(health_writer))
    /\ UNCHANGED health_seen
    /\ UNCHANGED health_other

\* another process reads the file
HealthRead ==
    /\ health_seen' = health_file
    /\ UNCHANGED <<health_writer, health_file>>
    /\ UNCHANGED health_other

HealthNext ==
    \/ \E now \in 1..MaxHealthTs : RecordPoll(now)
    \/ \E now \in 1..MaxHealthTs : RecordUpload(now)
    \/ \E count \in 0..MaxHealthCount : SetSpoolCount(count)
    \/ WriteText
    \/ HealthRead

HealthSpec == PollerInit /\ [][HealthNext]_vars

\* C35: the health file is overwritten atomically: whenever another process
\* reads it, it gets a complete record of the three fields (or finds no file
\* before the first write), never an empty or partly written file.
C35_ReaderSeesCompleteRecord ==
    health_seen.state \in {"unread", "absent", "complete"}

\* C36: samples are acknowledged in enqueue order: every rowid still pending,
\* in the connection or in the file, is greater than every rowid whose ack
\* was committed, every rowid the connection still holds is greater than
\* every rowid a DELETE of ack removed, and the rows of a batch sent to the
\* server are in ascending rowid order, which is the order of their enqueue.
C36_AckedIsPrefix ==
    /\ \A a \in acked : \A p \in Rowids(conn) \cup Rowids(disk) : a < p
    /\ \A a \in deleted : \A p \in Rowids(conn) : a < p
    /\ net = "request" => Ascending(up_rows) /\ InEnqueueOrder(up_rows)

\* C36 witness: the first row has been acked and the second one, enqueued
\* after it, is on its way to the server
C36_Witness ==
    /\ net = "request"
    /\ acked = {1}
    /\ RowidsOf(up_rows) = <<2>>
    /\ Rowids(conn) = {2}

\* C37: shutdown never discards pending samples: when run_loops has
\* returned, every row that was enqueued and did not belong to a batch
\* answered 200 is in the spool file, so the connection of the next start
\* holds it and peek offers it again; the final flush sent at most
\* batch_size rows.
C37_ShutdownKeepsPending ==
    run_pc = "returned" =>
        /\ \A i \in DOMAIN enq_log :
              enq_log[i].rowid \notin ok200 =>
                 /\ enq_log[i] \in disk.rows
                 /\ enq_log[i] \in OpenDb(disk).rows
                 /\ enq_log[i] \in Range(SqlPeek(OpenDb(disk).rows, MaxEnqueue))
        /\ Len(up_rows) <= batch_size

\* C37 witness: run_loops returned after a final flush that was refused,
\* with two rows left in the file
C37_Witness ==
    /\ run_pc = "returned"
    /\ shutdown
    /\ up_result = "false" /\ up_rows # <<>>
    /\ Cardinality(disk.rows) = 2
    /\ ok200 = {}

(***************************************************************************)
(* The content of the cache, checked under RealtimeSpec.                   *)
(***************************************************************************)
\* the text stored for a row
EncodingOf(row) == <<row.device_id, row.ts, row.pv_power_w>>

\* C38: every value stored under realtime:{d} is the encoding of a row of
\* device d that was the greatest-ts row of d in the table when the request
\* that wrote it read the table; the cache is written only on the miss path
\* after the table was read with a row found, never by a request answered
\* 403 or 404 and never by ingest.
C38_CacheContent ==
    /\ [](\A e \in cache :
             \E row \in BagToSet(store) :
                 /\ e.key = <<"realtime", row.device_id>>
                 /\ e.value = EncodingOf(row))
    /\ [][/\ \A e \in cache' \ cache :
                \E r \in Readers :
                   /\ rts[r].pc = "set" /\ rts'[r].pc = "respond"
                   /\ rts'[r].status = 200
                   /\ e.key = <<"realtime", rts[r].body.device_id>>
                   /\ e.value = EncodingOf(rts[r].body)
          /\ \A r \in Readers :
                rts'[r].pc = "set" /\ rts[r].pc # "set" =>
                   /\ rts[r].pc = "query"
                   /\ rts'[r].body \in BagToSet(store)
                   /\ rts'[r].body.device_id = DeviceId
                   /\ \A q \in BagToSet(store) :
                         q.device_id = DeviceId => q.ts <= rts'[r].body.ts
          /\ \A r \in Readers :
                (rts'[r] # rts[r] /\ rts'[r].status \in {403, 404}) =>
                   cache' = cache
          /\ ing' # ing => cache' \subseteq cache
       ]_vars

\* C38 witness: the cache holds the row with ts 1 of the device, written by
\* a request that read the table before the row with ts 2 was stored
C38_Witness ==
    /\ CacheGet(cache, CacheKey(DeviceId)) = EncodingOf(Sample(DeviceId, 1))
    /\ CopiesIn(Sample(DeviceId, 2), store) > 0
    /\ \A r \in Readers : rts[r].pc = "idle"
    /\ ing.pc = "idle"

====
